---- MODULE Spec2Model ----
(***************************************************************************)
(* simagent: the UI state synchronization and action-execution engine of   *)
(* main.go.  Each component is a sequential procedure whose only source of *)
(* nondeterminism is the device: every idb call may fail, and every        *)
(* accessibility snapshot may show any element set.  A component is        *)
(* modelled as a state machine with one action per external call; the      *)
(* components are checked under separate specifications that share the    *)
(* variables; the functions without state are applied to bounded inputs.   *)
(*                                                                         *)
(* Go strings on which the code does rune-level work (roles, ids, labels,  *)
(* values, typed text) are sequences of one-character strings.  Error      *)
(* codes and reasons, which the code only copies, are TLA+ strings.        *)
(***************************************************************************)
EXTENDS Integers, Sequences, FiniteSets, TLC

VARIABLES
  pc,      \* position of the running procedure
  calls,   \* external calls issued so far, in order (idb ui tap/text/describe-all, sleeps)
  result,  \* the value returned by the procedure, once pc = "done"
  fc,      \* locals of focusElementWithRetry
  ti,      \* locals of submitTextInput / typeTextInChunks
  fl,      \* locals of cmdUIFlow
  wt,      \* locals of waitForCondition
  st,      \* locals of captureStableUISamples
  cmd,     \* locals of a command handler of cmdUI (`ui tap`, `ui type`)
  pf       \* the arguments and the result of a function applied on its own

vars == <<pc, calls, result, fc, ti, fl, wt, st, cmd, pf>>

----------------------------------------------------------------------------
(* Bounds of the model *)

MaxElems == 2      \* elements per accessibility snapshot
MaxRetries == 2    \* largest --focus-retries value tried

----------------------------------------------------------------------------
(* Strings *)

Min2(a, b) == IF a < b THEN a ELSE b
Max2(a, b) == IF a > b THEN a ELSE b
SetMin(S) == CHOOSE x \in S : \A y \in S : x <= y
SetMax(S) == CHOOSE x \in S : \A y \in S : x >= y

UpperRunes == <<"A", "B", "C", "D", "E", "F", "G", "H", "I", "J", "K", "L", "M",
                "N", "O", "P", "Q", "R", "S", "T", "U", "V", "W", "X", "Y", "Z">>
LowerRunes == <<"a", "b", "c", "d", "e", "f", "g", "h", "i", "j", "k", "l", "m",
                "n", "o", "p", "q", "r", "s", "t", "u", "v", "w", "x", "y", "z">>

\* unicode.IsSpace on the runes the model uses
IsSpace(r) == r \in {" ", "\t", "\n"}

\* strings.TrimSpace
RECURSIVE TrimLeft(_)
TrimLeft(s) == IF s = <<>> \/ ~IsSpace(Head(s)) THEN s ELSE TrimLeft(Tail(s))
RECURSIVE TrimRight(_)
TrimRight(s) ==
  IF s = <<>> \/ ~IsSpace(s[Len(s)]) THEN s ELSE TrimRight(SubSeq(s, 1, Len(s) - 1))
TrimSpace(s) == TrimRight(TrimLeft(s))

\* strings.ToLower
LowerOf == [r \in {UpperRunes[i] : i \in 1..26} |->
              LowerRunes[CHOOSE i \in 1..26 : UpperRunes[i] = r]]
ToLowerRune(r) == IF r \in DOMAIN LowerOf THEN LowerOf[r] ELSE r
ToLower(s) == [i \in 1..Len(s) |-> ToLowerRune(s[i])]

\* strings.Contains
Contains(s, sub) ==
  \E i \in 0..(Len(s) - Len(sub)) : SubSeq(s, i + 1, i + Len(sub)) = sub

----------------------------------------------------------------------------
(* Roles *)

textInputRoleHints == {
  <<"t", "e", "x", "t", "f", "i", "e", "l", "d">>,
  <<"s", "e", "c", "u", "r", "e", "t", "e", "x", "t", "f", "i", "e", "l", "d">>,
  <<"s", "e", "a", "r", "c", "h", "f", "i", "e", "l", "d">>,
  <<"t", "e", "x", "t", "a", "r", "e", "a">>,
  <<"t", "e", "x", "t", "v", "i", "e", "w">> }

interactiveRoleHints == {
  <<"b", "u", "t", "t", "o", "n">>,
  <<"t", "e", "x", "t", "f", "i", "e", "l", "d">>,
  <<"s", "e", "c", "u", "r", "e", "t", "e", "x", "t", "f", "i", "e", "l", "d">>,
  <<"s", "w", "i", "t", "c", "h">>,
  <<"s", "l", "i", "d", "e", "r">>,
  <<"c", "e", "l", "l">>,
  <<"l", "i", "n", "k">> }

\* Role and ID strings are carried in elements by name; Runes gives the
\* runes of each, on which the code's string functions work.
Runes ==
  ("" :> <<>>) @@ (" " :> <<" ">>) @@ ("a" :> <<"a">>) @@ ("b" :> <<"b">>) @@
  ("c" :> <<"c">>) @@
  ("TextField" :> <<"T", "e", "x", "t", "F", "i", "e", "l", "d">>) @@
  ("SecureTextField" :> <<"S", "e", "c", "u", "r", "e", "T", "e", "x", "t", "F", "i", "e", "l", "d">>) @@
  ("Button" :> <<"B", "u", "t", "t", "o", "n">>) @@
  ("StaticText" :> <<"S", "t", "a", "t", "i", "c", "T", "e", "x", "t">>) @@
  ("NavigationBar" :> <<"N", "a", "v", "i", "g", "a", "t", "i", "o", "n", "B", "a", "r">>) @@
  ("tap" :> <<"t", "a", "p">>) @@ (" Tap" :> <<" ", "T", "a", "p">>) @@
  ("type" :> <<"t", "y", "p", "e">>) @@ ("clear" :> <<"c", "l", "e", "a", "r">>) @@
  ("swipe" :> <<"s", "w", "i", "p", "e">>) @@ ("wait" :> <<"w", "a", "i", "t">>) @@
  ("press" :> <<"p", "r", "e", "s", "s">>) @@
  ("axpath:/0" :> <<"a", "x", "p", "a", "t", "h", ":", "/", "0">>) @@
  ("axpath:/1" :> <<"a", "x", "p", "a", "t", "h", ":", "/", "1">>) @@
  ("axpath:/2" :> <<"a", "x", "p", "a", "t", "h", ":", "/", "2">>) @@
  ("axpath:/3" :> <<"a", "x", "p", "a", "t", "h", ":", "/", "3">>)

Roles == {"", "TextField", "SecureTextField", "Button", "StaticText", "NavigationBar"}
IDs == {"", " ", "a", "b", "c", "axpath:/0", "axpath:/1", "axpath:/2", "axpath:/3"}

isTextInputRole(role) ==
  LET r == ToLower(TrimSpace(Runes[role]))
  IN r # <<>> /\ \E hint \in textInputRoleHints : Contains(r, hint)

isInteractiveRole(role) ==
  LET r == ToLower(TrimSpace(Runes[role]))
  IN r # <<>> /\ \E hint \in interactiveRoleHints : Contains(r, hint)

\* isSecureTextInputRole without the lower-casing of the role
isSecureTextInputRoleCaseSensitive(role) ==
  Contains(TrimSpace(Runes[role]),
           <<"s", "e", "c", "u", "r", "e", "t", "e", "x", "t", "f", "i", "e", "l", "d">>)

isSecureTextInputRole(role) ==
  Contains(ToLower(TrimSpace(Runes[role])),
           <<"s", "e", "c", "u", "r", "e", "t", "e", "x", "t", "f", "i", "e", "l", "d">>)

\* the role tests and the ID tests, evaluated once per string of the model
TextInputRole == [role \in Roles |-> isTextInputRole(role)]
InteractiveRole == [role \in Roles |-> isInteractiveRole(role)]
SecureTextInputRole == [role \in Roles |-> isSecureTextInputRole(role)]
BlankID == [id \in IDs |-> TrimSpace(Runes[id]) = <<>>]
TrimmedID == [id \in IDs |-> CHOOSE t \in IDs : Runes[t] = TrimSpace(Runes[id])]

----------------------------------------------------------------------------
(* Elements and snapshots *)

Rect(x, y, w, h) == [X |-> x, Y |-> y, W |-> w, H |-> h]
Point(x, y) == [X |-> x, Y |-> y]

\* elementFromCandidate: Center is the middle of Frame.  Widths and heights
\* of the model are even, so the division is exact.
CenterOf(frame) == Point(frame.X + frame.W \div 2, frame.Y + frame.H \div 2)

Element(id, role, label, value, focused, visible, frame) ==
  [ID |-> id, Role |-> role, Label |-> label, Value |-> value,
   NearbyLabel |-> <<>>, Enabled |-> TRUE, Focused |-> focused,
   Visible |-> visible, Offscreen |-> FALSE,
   Frame |-> frame, Center |-> CenterOf(frame)]

\* the zero value Element{}
NoElement ==
  [ID |-> "", Role |-> "", Label |-> <<>>, Value |-> <<>>,
   NearbyLabel |-> <<>>, Enabled |-> FALSE, Focused |-> FALSE,
   Visible |-> FALSE, Offscreen |-> FALSE,
   Frame |-> Rect(0, 0, 0, 0), Center |-> Point(0, 0)]

\* normalizeElements with Order "reading": ascending Center.Y, then Center.X, then ID.
\* IDOrder lists the IDs of the model as Go's < on strings orders them.
IDOrder == <<"", " ", "a", "axpath:/0", "axpath:/1", "axpath:/2", "axpath:/3", "b", "c">>
IDRank == [id \in IDs |-> CHOOSE i \in 1..Len(IDOrder) : IDOrder[i] = id]
IDLess(a, b) == IDRank[a] < IDRank[b]

ReadingBefore(a, b) ==
  IF a.Center.Y # b.Center.Y THEN a.Center.Y < b.Center.Y
  ELSE IF a.Center.X # b.Center.X THEN a.Center.X < b.Center.X
  ELSE IDLess(a.ID, b.ID)

\* an element sequence in the order captureElements returns it
InReadingOrder(elements) ==
  \A i \in 1..Len(elements), j \in 1..Len(elements) :
    i < j => ~ReadingBefore(elements[j], elements[i])

SeqsUpTo(S, n) == UNION {[1..k -> S] : k \in 0..n}

\* the element sequences captureElements can return over a set of elements
SnapshotsOver(elements) == {s \in SeqsUpTo(elements, MaxElems) : InReadingOrder(s)}

\* a count of the interactive-role elements, visible or not
InteractiveCountOfAnyVisibility(elements) ==
  Cardinality({i \in DOMAIN elements : InteractiveRole[elements[i].Role]})

\* captureElements: InteractiveCount counts enabled, visible, interactive-role elements
InteractiveCountOf(elements) ==
  Cardinality({i \in DOMAIN elements :
     elements[i].Enabled /\ elements[i].Visible /\ InteractiveRole[elements[i].Role]})

elementSnapshot(elements) ==
  [Elements |-> elements, AllCount |-> Len(elements),
   InteractiveCount |-> InteractiveCountOf(elements)]

----------------------------------------------------------------------------
(* Errors *)

\* runCommand: the codes a failed subprocess call reports
TransportCodes == {"TIMEOUT", "COMMAND_FAILED", "COMMAND_NOT_FOUND"}

\* AppError{Code, Message, Details}; Details maps keys to values
AppError(code, message, details) ==
  [code |-> code, message |-> message, details |-> details]
NoError == [code |-> "", message |-> "", details |-> [none |-> TRUE]]

\* an error that is not an *AppError, with the text of its Error()
PlainError(text) == [text |-> text]

\* runCommand: the error of a subprocess that timed out, exited with a
\* status, was not found, or could not be run for another reason
runCommandError(code) ==
  CASE code = "TIMEOUT" ->
         AppError("TIMEOUT", "command timed out: idb", [stderr |-> "late"])
    [] code = "COMMAND_FAILED" ->
         AppError("COMMAND_FAILED", "command failed: idb",
                  [stderr |-> "boom", stdout |-> "", exitCode |-> 1])
    [] code = "COMMAND_NOT_FOUND" ->
         AppError("COMMAND_NOT_FOUND", "command not found: idb", <<>>)
    [] OTHER ->
         AppError("COMMAND_FAILED", "failed to run: idb", [cause |-> "fork failed"])

toAppError(err) ==
  IF err = NoError THEN AppError("UNKNOWN", "unknown error", <<>>)
  ELSE IF "code" \in DOMAIN err THEN err
  ELSE AppError("UNKNOWN", err.text, <<>>)

\* wrapAppErrCode that keeps only the code of the cause
wrapAppErrCodeDropsDetails(err, code, msg) ==
  LET appErr == toAppError(err)
  IN IF appErr.code = code THEN appErr
     ELSE AppError(code, msg, [causeCode |-> appErr.code])

\* wrapAppErrCode: an error that already has the code is returned unchanged;
\* any other is re-coded with its details copied and its code and message
\* added as causeCode and causeMessage
wrapAppErrCode(err, code, msg) ==
  LET appErr == toAppError(err)
  IN IF appErr.code = code THEN appErr
     ELSE AppError(code, msg,
            [k \in DOMAIN appErr.details \cup {"causeCode", "causeMessage"} |->
               IF k = "causeCode" THEN appErr.code
               ELSE IF k = "causeMessage" THEN appErr.message
               ELSE appErr.details[k]])

----------------------------------------------------------------------------
(* State shared by the specifications *)

Idle == [idle |-> TRUE]
NoResult == [ok |-> FALSE, code |-> "", details |-> [keys |-> {}]]
Success(value) == [ok |-> TRUE, code |-> "", details |-> value]
Failure(code, details) == [ok |-> FALSE, code |-> code, details |-> details]

\* a.runIDB: the subprocess either succeeds or fails with a transport code
CallOutcomes == {"ok"} \cup TransportCodes

TapCall(point) == [op |-> "tap", arg |-> point]
SleepCall(ms) == [op |-> "sleep", arg |-> ms]
DescribeCall == [op |-> "describe-all", arg |-> 0]
TextCall(chunk) == [op |-> "text", arg |-> chunk]

CallsOf(op) == SelectSeq(calls, LAMBDA c : c.op = op)

\* captureElements fails with IDB_UI_FAILED, whether the call or the parse failed
SnapshotError(cause) ==
  wrapAppErrCode(runCommandError(cause), "IDB_UI_FAILED", "failed to capture ui tree")

----------------------------------------------------------------------------
(* Focus Controller: focusElementWithRetry, canTrustFocus,                 *)
(* findBestVerificationTarget, focusPointForElement                        *)

FocusTrustRadius == 24

Dist2(p, q) == (p.X - q.X) * (p.X - q.X) + (p.Y - q.Y) * (p.Y - q.Y)

\* Frame.W*0.2 is exact on the model's widths, all multiples of 5
focusPointForElement(elem) ==
  IF ~TextInputRole[elem.Role] THEN elem.Center
  ELSE IF elem.Frame.W <= 0 THEN elem.Center
  ELSE LET inset == Max2(8, Min2((elem.Frame.W * 2) \div 10, 28))
           x == elem.Frame.X + inset
           maxX == elem.Frame.X + elem.Frame.W - 8
       IN Point(IF x > maxX THEN elem.Center.X ELSE x, elem.Center.Y)

\* by ID when the target has one and the snapshot still shows it, else the
\* nearest text-input element (the first one among equally near ones)
findBestVerificationTarget(elements, focused) ==
  LET byID == {i \in DOMAIN elements : elements[i].ID = focused.ID}
      inputs == {i \in DOMAIN elements : TextInputRole[elements[i].Role]}
      score(i) == Dist2(elements[i].Center, focused.Center)
      best == CHOOSE i \in inputs : \A j \in inputs :
                score(i) < score(j) \/ (score(i) = score(j) /\ i <= j)
  IN IF ~BlankID[focused.ID] /\ byID # {}
     THEN [ok |-> TRUE, elem |-> elements[SetMin(byID)]]
     ELSE IF inputs = {} THEN [ok |-> FALSE, elem |-> NoElement]
     ELSE [ok |-> TRUE, elem |-> elements[best]]

\* canTrustFocus without the comparison of the focused element with the target
canTrustFocusAnyFocused(elements, target) == TRUE

\* canTrustFocus that demands a reported focus
canTrustFocusNeedsFocus(elements, target) ==
  \E i \in DOMAIN elements :
    /\ elements[i].Focused
    /\ \/ /\ BlankID[target.ID]
          /\ Dist2(elements[i].Center, target.Center) <= FocusTrustRadius * FocusTrustRadius
       \/ elements[i].ID = target.ID

\* math.Hypot(dx, dy) <= 24 compared on the squares
canTrustFocus(elements, target) ==
  LET focusedIdx == {i \in DOMAIN elements : elements[i].Focused}
  IN IF \E i \in focusedIdx :
          \/ /\ BlankID[target.ID]
             /\ Dist2(elements[i].Center, target.Center) <= FocusTrustRadius * FocusTrustRadius
          \/ elements[i].ID = target.ID
     THEN TRUE
     ELSE focusedIdx = {}

\* Inputs of the focus controller
\* a wide field and a narrow one: their centers are (50,10) and (110,10)
FocusFrames == {Rect(0, 0, 100, 20), Rect(105, 0, 10, 20)}
FocusRoles == {"TextField", "Button"}

\* the element handed over by the selector resolver; read from a snapshot
\* or from a user-supplied elements file, so its ID may be empty
FocusTargets ==
  {Element(id, role, <<>>, <<>>, FALSE, TRUE, frame) :
     id \in {"", "a"}, role \in FocusRoles, frame \in {Rect(0, 0, 100, 20)}}

\* elements of a snapshot: walkCandidates always synthesizes a non-empty ID
FocusElements ==
  {Element(id, role, <<>>, <<>>, focused, TRUE, frame) :
     id \in {"a", "b"}, role \in FocusRoles,
     focused \in BOOLEAN, frame \in FocusFrames}

FocusSnapshots == SnapshotsOver(FocusElements)

\* what one attempt did and saw; original is the element the controller
\* was called with
Attempt(original, tapOK, snapOK, elements, located, matched, trusted) ==
  LET focusedIdx == {i \in DOMAIN elements : elements[i].Focused}
  IN [tapOK |-> tapOK, snapOK |-> snapOK, located |-> located, trusted |-> trusted,
      hasFocused |-> focusedIdx # {},
      interactive |-> IF snapOK THEN InteractiveCountOf(elements) ELSE -1,
      bestForOriginal |->
         located /\ findBestVerificationTarget(elements, original).elem = matched,
      focusedNearOriginal |-> located /\ \E i \in focusedIdx :
         Dist2(elements[i].Center, original.Center) <= FocusTrustRadius * FocusTrustRadius,
      targetHasID |-> located /\ ~BlankID[matched.ID],
      focusedSameID |-> located /\ \E i \in focusedIdx : elements[i].ID = matched.ID,
      focusedNear |-> located /\ \E i \in focusedIdx :
         Dist2(elements[i].Center, matched.Center) <= FocusTrustRadius * FocusTrustRadius]

InitFocus ==
  /\ pc = "focus_tap"
  /\ calls = <<>>
  /\ result = NoResult
  /\ \E elem \in FocusTargets, retries \in 0..MaxRetries :
       fc = [elem |-> elem,
             retriesArg |-> retries,
             retries |-> IF retries <= 0 THEN 1 ELSE retries,
             attempt |-> 1,
             target |-> elem,
             focusPoint |-> focusPointForElement(elem),
             lastReason |-> "",
             lastErr |-> NoError,
             lastInteractive |-> -1,
             attempts |-> <<>>]
  /\ ti = Idle /\ fl = Idle /\ wt = Idle /\ st = Idle /\ cmd = Idle /\ pf = Idle

\* a pass whose failed tap ends the loop
FocusTapGivesUpOnFailure ==
  /\ pc = "focus_tap"
  /\ fc.attempt <= fc.retries
  /\ calls' = Append(calls, TapCall(fc.focusPoint))
  /\ \E out \in CallOutcomes :
       IF out = "ok"
       THEN /\ pc' = "focus_snap"
            /\ fc' = fc
       ELSE /\ pc' = "focus_tap"
            /\ fc' = [fc EXCEPT
                 !.lastErr = wrapAppErrCode(runCommandError(out), "IDB_UI_FAILED", "focus tap failed"),
                 !.attempt = fc.retries + 1,
                 !.attempts = Append(@, Attempt(fc.elem, FALSE, FALSE, <<>>, FALSE, NoElement, FALSE))]
  /\ UNCHANGED <<result, ti, fl, wt, st, cmd, pf>>

\* one pass of the loop up to the tap: the tap fails (continue) or succeeds
FocusTap ==
  /\ pc = "focus_tap"
  /\ fc.attempt <= fc.retries
  /\ calls' = Append(calls, TapCall(fc.focusPoint))
  /\ \E out \in CallOutcomes :
       IF out = "ok"
       THEN /\ pc' = "focus_snap"
            /\ fc' = fc
       ELSE /\ pc' = "focus_tap"
            /\ fc' = [fc EXCEPT
                 !.lastErr = wrapAppErrCode(runCommandError(out), "IDB_UI_FAILED", "focus tap failed"),
                 !.attempt = @ + 1,
                 !.attempts = Append(@, Attempt(fc.elem, FALSE, FALSE, <<>>, FALSE, NoElement, FALSE))]
  /\ UNCHANGED <<result, ti, fl, wt, st, cmd, pf>>

\* the rest of the pass: settle, snapshot, re-locate the target, decide trust
FocusVerify ==
  /\ pc = "focus_snap"
  /\ calls' = calls \o <<SleepCall(120), DescribeCall>>
  /\ \/ \E cause \in TransportCodes :
          /\ fc' = [fc EXCEPT
               !.lastErr = SnapshotError(cause),
               !.attempt = @ + 1,
               !.attempts = Append(@, Attempt(fc.elem, TRUE, FALSE, <<>>, FALSE, NoElement, FALSE))]
          /\ pc' = "focus_tap"
          /\ UNCHANGED result
     \/ \E elements \in FocusSnapshots :
          LET snapshot == elementSnapshot(elements)
              found == findBestVerificationTarget(snapshot.Elements, fc.target)
              matched == found.elem
              focusPoint == focusPointForElement(matched)
              trusted == canTrustFocus(snapshot.Elements, matched)
          IN IF ~found.ok
             THEN /\ fc' = [fc EXCEPT
                       !.lastInteractive = snapshot.InteractiveCount,
                       !.lastReason = "target element not found after tap",
                       !.attempt = @ + 1,
                       !.attempts = Append(@, Attempt(fc.elem, TRUE, TRUE, elements, FALSE, NoElement, FALSE))]
                  /\ pc' = "focus_tap"
                  /\ UNCHANGED result
             ELSE IF trusted
             THEN /\ fc' = [fc EXCEPT
                       !.lastInteractive = snapshot.InteractiveCount,
                       !.target = [matched EXCEPT !.Center = focusPoint],
                       !.focusPoint = focusPoint,
                       !.attempts = Append(@, Attempt(fc.elem, TRUE, TRUE, elements, TRUE, matched, TRUE))]
                  /\ result' = Success([matched EXCEPT !.Center = focusPoint])
                  /\ pc' = "done"
             ELSE /\ fc' = [fc EXCEPT
                       !.lastInteractive = snapshot.InteractiveCount,
                       !.target = matched,
                       !.focusPoint = focusPoint,
                       !.lastReason = "focus moved to different element",
                       !.attempt = @ + 1,
                       !.attempts = Append(@, Attempt(fc.elem, TRUE, TRUE, elements, TRUE, matched, FALSE))]
                  /\ pc' = "focus_tap"
                  /\ UNCHANGED result
  /\ UNCHANGED <<ti, fl, wt, st, cmd, pf>>

\* the details of TYPE_FOCUS_FAILED; keys lists the entries the map holds
FocusFailedDetailsLoopCounter(f) ==
  [keys |-> {"selectorId", "attempts"}
            \cup (IF f.lastReason # "" THEN {"reason"} ELSE {})
            \cup (IF f.lastErr # NoError THEN {"lastError"} ELSE {})
            \cup (IF f.lastInteractive >= 0 THEN {"interactive"} ELSE {}),
   selectorId |-> TrimmedID[f.elem.ID],
   attempts |-> f.attempt,
   reason |-> f.lastReason,
   lastError |-> f.lastErr,
   interactive |-> f.lastInteractive]

FocusFailedDetails(f) ==
  [keys |-> {"selectorId", "attempts"}
            \cup (IF f.lastReason # "" THEN {"reason"} ELSE {})
            \cup (IF f.lastErr # NoError THEN {"lastError"} ELSE {})
            \cup (IF f.lastInteractive >= 0 THEN {"interactive"} ELSE {}),
   selectorId |-> TrimmedID[f.elem.ID],
   attempts |-> f.retries,
   reason |-> f.lastReason,
   lastError |-> f.lastErr,
   interactive |-> f.lastInteractive]

\* the loop is over: TYPE_FOCUS_FAILED with the accumulated diagnostics
FocusExhausted ==
  /\ pc = "focus_tap"
  /\ fc.attempt > fc.retries
  /\ result' = Failure("TYPE_FOCUS_FAILED", FocusFailedDetails(fc))
  /\ pc' = "done"
  /\ UNCHANGED <<calls, fc, ti, fl, wt, st, cmd, pf>>

NextFocus == FocusTap \/ FocusVerify \/ FocusExhausted

SpecFocus == InitFocus /\ [][NextFocus]_vars

----------------------------------------------------------------------------
(* Text Reconciliation Engine: submitTextInput, typeTextInChunks,          *)
(* splitIntoInputChunks, typedMissingSuffix, comparableRunesWithMap        *)

InputChunkRunes == 4        \* typeTextInChunks(udid, text, 4)
MaxVerifyRounds == 4        \* for attempt := 1; attempt <= 4; attempt++

\* ceil(len/chunkRunes) chunks of chunkRunes runes, the last one shorter
\* splitIntoInputChunks that drops a last chunk shorter than the others
splitIntoInputChunksWholeOnly(text, chunkRunes) ==
  IF Len(text) = 0 THEN <<>>
  ELSE IF chunkRunes <= 0 \/ Len(text) <= chunkRunes THEN <<text>>
  ELSE [k \in 1..(Len(text) \div chunkRunes) |->
          SubSeq(text, (k - 1) * chunkRunes + 1, k * chunkRunes)]

splitIntoInputChunks(text, chunkRunes) ==
  IF Len(text) = 0 THEN <<>>
  ELSE IF chunkRunes <= 0 \/ Len(text) <= chunkRunes THEN <<text>>
  ELSE [k \in 1..((Len(text) + chunkRunes - 1) \div chunkRunes) |->
          SubSeq(text, (k - 1) * chunkRunes + 1, Min2(k * chunkRunes, Len(text)))]

isIgnoredCompareRune(r) == IsSpace(r)

\* the runes that are compared, and for each its 0-based index in the input
comparableRunesWithMap(runes) ==
  [comparable |-> SelectSeq(runes, LAMBDA r : ~isIgnoredCompareRune(r)),
   indexMap |-> SelectSeq([i \in 1..Len(runes) |-> i - 1],
                          LAMBDA i : ~isIgnoredCompareRune(runes[i + 1]))]

\* typedMissingSuffix that resends from the last observed rune
typedMissingSuffixOffByOne(intended, observed) ==
  LET ic == comparableRunesWithMap(intended)
      oc == comparableRunesWithMap(observed)
      n == Len(oc.comparable)
      start == ic.indexMap[n + 1]
  IN IF n > Len(ic.comparable) THEN [missing |-> <<>>, comparable |-> FALSE]
     ELSE IF \E i \in 1..n : oc.comparable[i] # ic.comparable[i]
     THEN [missing |-> <<>>, comparable |-> FALSE]
     ELSE IF n = Len(ic.comparable) THEN [missing |-> <<>>, comparable |-> TRUE]
     ELSE [missing |-> SubSeq(intended, Max2(start, 1), Len(intended)), comparable |-> TRUE]

\* typedMissingSuffix that compares the lengths only
typedMissingSuffixLengthOnly(intended, observed) ==
  LET ic == comparableRunesWithMap(intended)
      oc == comparableRunesWithMap(observed)
      n == Len(oc.comparable)
      start == ic.indexMap[n + 1]
  IN IF n >= Len(ic.comparable) THEN [missing |-> <<>>, comparable |-> TRUE]
     ELSE [missing |-> SubSeq(intended, start + 1, Len(intended)), comparable |-> TRUE]

\* typedMissingSuffix that cuts the intended text at the stripped position
typedMissingSuffixStrippedIndex(intended, observed) ==
  LET ic == comparableRunesWithMap(intended)
      oc == comparableRunesWithMap(observed)
      n == Len(oc.comparable)
  IN IF n > Len(ic.comparable) THEN [missing |-> <<>>, comparable |-> FALSE]
     ELSE IF \E i \in 1..n : oc.comparable[i] # ic.comparable[i]
     THEN [missing |-> <<>>, comparable |-> FALSE]
     ELSE IF n = Len(ic.comparable) THEN [missing |-> <<>>, comparable |-> TRUE]
     ELSE [missing |-> SubSeq(intended, n + 1, Len(intended)), comparable |-> TRUE]

\* typedMissingSuffix that compares the runes as they are, white space included
typedMissingSuffixKeepsSpaces(intended, observed) ==
  IF Len(observed) > Len(intended) THEN [missing |-> <<>>, comparable |-> FALSE]
  ELSE IF SubSeq(intended, 1, Len(observed)) # observed
  THEN [missing |-> <<>>, comparable |-> FALSE]
  ELSE [missing |-> SubSeq(intended, Len(observed) + 1, Len(intended)), comparable |-> TRUE]

typedMissingSuffix(intended, observed) ==
  LET ic == comparableRunesWithMap(intended)
      oc == comparableRunesWithMap(observed)
      n == Len(oc.comparable)
      start == ic.indexMap[n + 1]
  IN IF n > Len(ic.comparable) THEN [missing |-> <<>>, comparable |-> FALSE]
     ELSE IF \E i \in 1..n : oc.comparable[i] # ic.comparable[i]
     THEN [missing |-> <<>>, comparable |-> FALSE]
     ELSE IF n = Len(ic.comparable) THEN [missing |-> <<>>, comparable |-> TRUE]
     ELSE IF start < 0 \/ start > Len(intended) THEN [missing |-> <<>>, comparable |-> FALSE]
     ELSE [missing |-> SubSeq(intended, start + 1, Len(intended)), comparable |-> TRUE]

findFocusedTextInput(elements) ==
  LET hits == {i \in DOMAIN elements :
                 elements[i].Enabled /\ elements[i].Focused /\ TextInputRole[elements[i].Role]}
  IN IF hits = {} THEN [ok |-> FALSE, elem |-> NoElement]
     ELSE [ok |-> TRUE, elem |-> elements[SetMin(hits)]]

\* Inputs of the engine.  The typed texts, after prepareTypedText trimmed them:
TextHello == <<"h", "e", "l", "l", "o", "@", "e", "x", "a", "m", "p", "l", "e", ".", "c", "o", "m">>
TextSpaced == <<"a", " ", "b", "c">>
TextShort == <<"a", "b">>
TypedTexts == {TextHello, TextSpaced, TextShort, <<>>}

\* what the field may show after a submission, as [Value, Label] of the
\* element: a proper prefix, the full text, the text with other white space,
\* a diverging or longer value, and an empty value behind a label
Shown(value, label) == [Value |-> value, Label |-> label]
ShownOf(value) == Shown(value, value)
TypeFields ==
  [text \in TypedTexts |->
    IF text = TextHello
    THEN {ShownOf(SubSeq(TextHello, 1, 10)), ShownOf(TextHello)}
    ELSE IF text = TextSpaced
    THEN {ShownOf(<<"a">>), ShownOf(<<"a", "b", " ", "c">>), ShownOf(<<"a", "c">>)}
    ELSE IF text = TextShort
    THEN {Shown(<<>>, <<>>), Shown(<<>>, <<"N", "a", "m", "e">>), ShownOf(<<"a", "b", "c">>)}
    ELSE {Shown(<<>>, <<>>)}]

TypeRoles == {"TextField", "SecureTextField", "Button"}
\* the element "a" is a wide field on the left, "b" a narrow one on the right
TypeFrame == ("a" :> Rect(0, 0, 100, 20)) @@ ("b" :> Rect(105, 0, 10, 20))

\* the field "a" is the one holding the input focus
TypeFocused == ("a" :> TRUE) @@ ("b" :> FALSE)

TypeElements(text) ==
  {Element(id, role, f.Label, f.Value, TypeFocused[id], TRUE, TypeFrame[id]) :
     id \in {"a", "b"}, role \in TypeRoles, f \in TypeFields[text]}

SnapshotsHello == SnapshotsOver(TypeElements(TextHello))
SnapshotsSpaced == SnapshotsOver(TypeElements(TextSpaced))
SnapshotsShort == SnapshotsOver(TypeElements(TextShort))
SnapshotsEmpty == SnapshotsOver(TypeElements(<<>>))

\* the snapshots the device may answer with while `text` is being typed
TypeSnapshots(text) ==
  IF text = TextHello THEN SnapshotsHello
  ELSE IF text = TextSpaced THEN SnapshotsSpaced
  ELSE IF text = TextShort THEN SnapshotsShort
  ELSE SnapshotsEmpty

\* what submitTextInput reads from the matched element
ObservedOf(matched) ==
  IF TrimSpace(matched.Value) = <<>> THEN TrimSpace(matched.Label) ELSE TrimSpace(matched.Value)

\* typedMissingSuffix on the texts and observations of the model, evaluated once
MissingSuffixOf ==
  [text \in TypedTexts |->
    [observed \in {ObservedOf(f) : f \in TypeFields[text]} \cup {<<>>} |->
       typedMissingSuffix(text, observed)]]

\* the focus target handed over by focusElementWithRetry, or none
TypeTargets ==
  {Element(id, role, <<>>, <<>>, TRUE, TRUE, TypeFrame["a"]) :
     id \in {"", "a"}, role \in {"TextField", "SecureTextField"}}

\* one verification round, as seen from outside
Round(observed, missing) ==
  [observed |-> observed, comparable |-> missing.comparable, missing |-> missing.missing]

\* typeTextInChunks starts: the chunks still to send, and where to go after
StartChunks(t, text, after) ==
  [t EXCEPT !.chunks = SelectSeq(splitIntoInputChunks(text, InputChunkRunes), LAMBDA c : c # <<>>),
            !.chunkCount = Len(splitIntoInputChunks(text, InputChunkRunes)),
            !.after = after,
            !.submitted = Append(@, <<>>)]

InitType ==
  /\ pc = "type_start"
  /\ calls = <<>>
  /\ result = NoResult
  /\ \E text \in TypedTexts, hasFocused \in BOOLEAN, focused \in TypeTargets :
       ti = [text |-> text,
             hasFocused |-> hasFocused,
             focused |-> IF hasFocused THEN focused ELSE NoElement,
             hasTarget |-> hasFocused,
             target |-> IF hasFocused THEN focused ELSE NoElement,
             attempt |-> 1,
             lastObserved |-> <<>>,
             chunks |-> <<>>,
             chunkCount |-> 0,
             after |-> "",
             submitted |-> <<>>,
             injectorFailed |-> FALSE,
             rounds |-> <<>>,
             snapshotFailed |-> FALSE]
  /\ fc = Idle /\ fl = Idle /\ wt = Idle /\ st = Idle /\ cmd = Idle /\ pf = Idle

\* submitTextInput up to the first typeTextInChunks
TypeStart ==
  /\ pc = "type_start"
  /\ IF TrimSpace(ti.text) = <<>>
     THEN /\ result' = Success([keys |-> {}])
          /\ pc' = "done"
          /\ ti' = ti
     ELSE /\ ti' = StartChunks(ti, ti.text, "target")
          /\ pc' = "type_chunks"
          /\ UNCHANGED result
  /\ UNCHANGED <<calls, fc, fl, wt, st, cmd, pf>>

\* a loop that sends the remaining chunks after a failed call
TypeChunkGoesOnAfterFailure ==
  /\ pc = "type_chunks"
  /\ ti.chunks # <<>>
  /\ \E out \in CallOutcomes :
       LET chunk == Head(ti.chunks)
           sent == [ti EXCEPT !.chunks = Tail(@),
                              !.submitted = [ti.submitted EXCEPT ![Len(ti.submitted)] = Append(@, chunk)]]
       IN IF out # "ok"
          THEN /\ calls' = Append(calls, TextCall(chunk))
               /\ ti' = [sent EXCEPT !.injectorFailed = TRUE]
               /\ result' = Failure("IDB_UI_FAILED",
                     wrapAppErrCode(runCommandError(out), "IDB_UI_FAILED", "text input failed").details)
               /\ pc' = IF sent.chunks # <<>> THEN "type_chunks" ELSE "done"
          ELSE /\ calls' = IF ti.chunkCount > 1
                           THEN calls \o <<TextCall(chunk), SleepCall(60)>>
                           ELSE Append(calls, TextCall(chunk))
               /\ UNCHANGED result
               /\ IF sent.chunks # <<>>
                  THEN ti' = sent /\ pc' = "type_chunks"
                  ELSE IF ti.after = "target"
                  THEN ti' = sent /\ pc' = "type_target"
                  ELSE /\ ti' = [sent EXCEPT !.attempt = @ + 1]
                       /\ pc' = "type_verify"
  /\ UNCHANGED <<fc, fl, wt, st, cmd, pf>>

\* typeTextInChunks: one injector call of the loop, and what follows it.
\* A failed call ends submitTextInput with IDB_UI_FAILED.  After the last
\* chunk control is back in submitTextInput: resolve the target (after the
\* first submission) or go to the next verification round.
TypeChunk ==
  /\ pc = "type_chunks"
  /\ ti.chunks # <<>>
  /\ \E out \in CallOutcomes :
       LET chunk == Head(ti.chunks)
           sent == [ti EXCEPT !.chunks = Tail(@),
                              !.submitted = [ti.submitted EXCEPT ![Len(ti.submitted)] = Append(@, chunk)]]
       IN IF out # "ok"
          THEN /\ calls' = Append(calls, TextCall(chunk))
               /\ ti' = [sent EXCEPT !.injectorFailed = TRUE]
               /\ result' = Failure("IDB_UI_FAILED",
                     wrapAppErrCode(runCommandError(out), "IDB_UI_FAILED", "text input failed").details)
               /\ pc' = "done"
          ELSE /\ calls' = IF ti.chunkCount > 1
                           THEN calls \o <<TextCall(chunk), SleepCall(60)>>
                           ELSE Append(calls, TextCall(chunk))
               /\ UNCHANGED result
               /\ IF sent.chunks # <<>>
                  THEN ti' = sent /\ pc' = "type_chunks"
                  ELSE IF ti.after = "target"
                  THEN ti' = sent /\ pc' = "type_target"
                  ELSE /\ ti' = [sent EXCEPT !.attempt = @ + 1]
                       /\ pc' = "type_verify"
  /\ UNCHANGED <<fc, fl, wt, st, cmd, pf>>

\* target := focused, or the focused text input of a fresh snapshot; a
\* missing or secure target ends the call with success
TypeTarget ==
  /\ pc = "type_target"
  /\ IF ti.hasTarget
     THEN /\ calls' = calls
          /\ IF SecureTextInputRole[ti.target.Role]
             THEN result' = Success([keys |-> {}]) /\ pc' = "done"
             ELSE UNCHANGED result /\ pc' = "type_verify"
          /\ ti' = ti
     ELSE /\ calls' = Append(calls, DescribeCall)
          /\ \/ /\ \E cause \in TransportCodes : TRUE
                /\ result' = Success([keys |-> {}]) /\ pc' = "done"
                /\ ti' = [ti EXCEPT !.snapshotFailed = TRUE]
             \/ \E elements \in TypeSnapshots(ti.text) :
                  LET found == findFocusedTextInput(elements)
                  IN IF ~found.ok \/ SecureTextInputRole[found.elem.Role]
                     THEN /\ result' = Success([keys |-> {}]) /\ pc' = "done"
                          /\ ti' = [ti EXCEPT !.hasTarget = found.ok, !.target = found.elem]
                     ELSE /\ UNCHANGED result /\ pc' = "type_verify"
                          /\ ti' = [ti EXCEPT !.hasTarget = TRUE, !.target = found.elem]
  /\ UNCHANGED <<fc, fl, wt, st, cmd, pf>>

\* one verification round: settle, snapshot, re-locate, compare, resubmit
TypeVerify ==
  /\ pc = "type_verify"
  /\ ti.attempt <= MaxVerifyRounds
  /\ calls' = calls \o <<SleepCall(90), DescribeCall>>
  /\ \/ \E cause \in TransportCodes :
          /\ result' = Failure("IDB_UI_FAILED", SnapshotError(cause).details)
          /\ pc' = "done"
          /\ ti' = [ti EXCEPT !.snapshotFailed = TRUE]
     \/ \E elements \in TypeSnapshots(ti.text) :
          LET best == findBestVerificationTarget(elements, ti.target)
              found == IF best.ok THEN best ELSE findFocusedTextInput(elements)
              matched == found.elem
              observed == ObservedOf(matched)
              missing == MissingSuffixOf[ti.text][observed]
              seen == [ti EXCEPT !.target = matched,
                                 !.lastObserved = observed,
                                 !.rounds = Append(@, Round(observed, missing))]
          IN IF ~found.ok
             THEN /\ result' = Failure("TYPE_VERIFY_FAILED",
                        [keys |-> {"intended", "attempt"},
                         intended |-> ti.text, attempt |-> ti.attempt])
                  /\ pc' = "done"
                  /\ ti' = ti
             ELSE IF SecureTextInputRole[matched.Role]
             THEN /\ result' = Success([keys |-> {}])
                  /\ pc' = "done"
                  /\ ti' = [ti EXCEPT !.target = matched]
             ELSE IF ~missing.comparable
             THEN /\ result' = Failure("TYPE_INCOMPLETE",
                        [keys |-> {"intended", "observed", "attempt", "elementId"},
                         intended |-> ti.text, observed |-> observed,
                         attempt |-> ti.attempt, elementId |-> matched.ID])
                  /\ pc' = "done"
                  /\ ti' = seen
             ELSE IF missing.missing = <<>>
             THEN /\ result' = Success([keys |-> {}])
                  /\ pc' = "done"
                  /\ ti' = seen
             ELSE /\ UNCHANGED result
                  /\ pc' = "type_chunks"
                  /\ ti' = StartChunks(seen, missing.missing, "round")
  /\ UNCHANGED <<fc, fl, wt, st, cmd, pf>>

\* the rounds are used up and the call reports success
TypeExhaustedReportsSuccess ==
  /\ pc = "type_verify"
  /\ ti.attempt > MaxVerifyRounds
  /\ result' = Success([keys |-> {}])
  /\ pc' = "done"
  /\ UNCHANGED <<calls, ti, fc, fl, wt, st, cmd, pf>>

\* the rounds are used up
TypeExhausted ==
  /\ pc = "type_verify"
  /\ ti.attempt > MaxVerifyRounds
  /\ LET missing == MissingSuffixOf[ti.text][ti.lastObserved].missing
     IN IF missing # <<>>
        THEN result' = Failure("TYPE_INCOMPLETE",
                 [keys |-> {"intended", "observed", "missing"},
                  intended |-> ti.text, observed |-> ti.lastObserved, missing |-> missing])
        ELSE result' = Success([keys |-> {}])
  /\ pc' = "done"
  /\ UNCHANGED <<calls, ti, fc, fl, wt, st, cmd, pf>>

NextType == TypeStart \/ TypeChunk \/ TypeTarget \/ TypeVerify \/ TypeExhausted

SpecType == InitType /\ [][NextType]_vars

----------------------------------------------------------------------------
(* Flow Runner: cmdUIFlow, executeFlowStep, captureFailureArtifacts        *)

MaxSteps == 3          \* steps in a flow file
MaxInvocations == 2    \* runs of `ui flow run` in a row

\* One step of a flow file, reduced to the fields executeFlowStep validates:
\* the action string, the number of selectors set, whether x and y are
\* given, whether text is non-blank, into (a *bool), and whether the swipe
\* direction is a known one and the wait durations parse.
uiFlowStep(action, selectors, coords, text, into, argsOK) ==
  [Action |-> action, Selectors |-> selectors, Coords |-> coords,
   Text |-> text, Into |-> into, ArgsOK |-> argsOK]

FlowActions == {"tap", " Tap", "type", "clear", "swipe", "wait", "press"}

\* strings.ToLower(strings.TrimSpace(step.Action))
NormalizedAction == [a \in FlowActions |->
  CHOOSE n \in FlowActions : Runes[n] = ToLower(TrimSpace(Runes[a]))]

\* what the device-facing part of a valid step can end in: "ok" or an error code
StepOutcomes ==
  ("tap" :> {"ok", "IDB_UI_FAILED", "ELEMENT_NOT_FOUND"}) @@
  ("type" :> {"ok", "TYPE_FOCUS_FAILED", "TYPE_INCOMPLETE"}) @@
  ("clear" :> {"ok", "TYPE_FOCUS_FAILED"}) @@
  ("swipe" :> {"ok", "IDB_UI_FAILED"}) @@
  ("wait" :> {"ok", "WAIT_TIMEOUT"}) @@
  ("press" :> {"ok"})

\* executeFlowStep: the argument checks of each action, then the device
\* part, whose outcome is `device`.  Returns "ok" or the error code.
executeFlowStep(step, device) ==
  LET action == NormalizedAction[step.Action]
  IN CASE action = "tap" ->
            IF step.Coords THEN device
            ELSE IF step.Selectors # 1 THEN "USAGE" ELSE device
       [] action = "type" ->
            IF ~step.Text THEN "USAGE"
            ELSE LET into == \/ step.Into = "true"
                             \/ (step.Into = "unset" /\ step.Selectors = 1)
                 IN IF into /\ step.Selectors # 1 THEN "USAGE" ELSE device
       [] action = "clear" ->
            IF step.Selectors # 1 THEN "USAGE" ELSE device
       [] action = "swipe" -> IF ~step.ArgsOK THEN "USAGE" ELSE device
       [] action = "wait" -> IF ~step.ArgsOK THEN "USAGE" ELSE device
       [] OTHER -> "USAGE"

\* captureFailureArtifacts: every failure inside is swallowed
captureFailureArtifacts(mkdirOK, screenshotOK, describeOK) ==
  IF ~mkdirOK THEN {"outDir", "error"}
  ELSE {"outDir"} \cup (IF screenshotOK THEN {"screenshot"} ELSE {})
                  \cup (IF describeOK THEN {"uiRaw"} ELSE {})

\* FLOW_STEP_FAILED that reports the next step as the one to resume from
FlowStepFailedNextStep(i, step, stepErr, artifacts) ==
  Failure("FLOW_STEP_FAILED",
    [keys |-> {"step", "name", "action", "resumeFrom", "error", "artifacts"},
     step |-> i + 1, action |-> TrimSpace(Runes[step.Action]),
     resumeFrom |-> i + 2,
     error |-> stepErr, artifacts |-> artifacts])

\* FLOW_STEP_FAILED that reports the failure to create the output
\* directory in place of the error of the step
FlowStepFailedCaptureError(i, step, stepErr, artifacts) ==
  Failure("FLOW_STEP_FAILED",
    [keys |-> {"step", "name", "action", "resumeFrom", "error", "artifacts"},
     step |-> i + 1, action |-> TrimSpace(Runes[step.Action]),
     resumeFrom |-> i + 1,
     error |-> IF "error" \in artifacts THEN "IO_ERROR" ELSE stepErr,
     artifacts |-> artifacts])

\* the error of cmdUIFlow for the step at 0-based index i
FlowStepFailed(i, step, stepErr, artifacts) ==
  Failure("FLOW_STEP_FAILED",
    [keys |-> {"step", "name", "action", "resumeFrom", "error", "artifacts"},
     step |-> i + 1, action |-> TrimSpace(Runes[step.Action]),
     resumeFrom |-> i + 1,
     error |-> stepErr, artifacts |-> artifacts])

\* Inputs of the flow runner
FlowSteps ==
  {uiFlowStep("tap", 0, TRUE, FALSE, "unset", TRUE),
   uiFlowStep(" Tap", 2, FALSE, FALSE, "unset", TRUE),
   uiFlowStep("type", 1, FALSE, TRUE, "unset", TRUE),
   uiFlowStep("wait", 0, FALSE, FALSE, "unset", TRUE),
   uiFlowStep("swipe", 0, FALSE, FALSE, "unset", FALSE),
   uiFlowStep("press", 0, FALSE, FALSE, "unset", TRUE)}

FlowFiles == SeqsUpTo(FlowSteps, MaxSteps)
ResumeFromValues == 0..(MaxSteps + 1)

\* an invocation whose loop starts at the first step whatever --resume-from says
FlowInvocationFromStart(steps, fileOK, resumeFrom, invocation, previous) ==
  [steps |-> steps, fileOK |-> fileOK, resumeFrom |-> resumeFrom,
   i |-> 0, executed |-> <<>>, outcomes |-> <<>>,
   invocation |-> invocation, previous |-> previous]

\* a fresh invocation of `ui flow run --file f --resume-from k`: i is the
\* loop variable; executed and outcomes log the steps handed to
\* executeFlowStep and what each returned
FlowInvocation(steps, fileOK, resumeFrom, invocation, previous) ==
  [steps |-> steps, fileOK |-> fileOK, resumeFrom |-> resumeFrom,
   i |-> resumeFrom - 1, executed |-> <<>>, outcomes |-> <<>>,
   invocation |-> invocation, previous |-> previous]

InitFlow ==
  /\ pc = "flow_args"
  /\ calls = <<>>
  /\ result = NoResult
  /\ \E steps \in FlowFiles, fileOK \in BOOLEAN, resumeFrom \in ResumeFromValues :
       fl = FlowInvocation(steps, fileOK, resumeFrom, 1, NoResult)
  /\ fc = Idle /\ ti = Idle /\ wt = Idle /\ st = Idle /\ cmd = Idle /\ pf = Idle

\* cmdUIFlow that checks the arguments of every remaining step before the
\* loop and rejects the file with a top-level USAGE error
FlowArgsValidatesSteps ==
  /\ pc = "flow_args"
  /\ IF fl.resumeFrom <= 0
     THEN result' = Failure("USAGE", [keys |-> {}]) /\ pc' = "done"
     ELSE IF ~fl.fileOK
     THEN result' = Failure("IO_ERROR", [keys |-> {"cause"}]) /\ pc' = "done"
     ELSE IF Len(fl.steps) = 0
     THEN result' = Failure("USAGE", [keys |-> {}]) /\ pc' = "done"
     ELSE IF fl.resumeFrom > Len(fl.steps)
     THEN result' = Failure("USAGE", [keys |-> {}]) /\ pc' = "done"
     ELSE IF \E k \in fl.resumeFrom..Len(fl.steps) :
               executeFlowStep(fl.steps[k], "ok") = "USAGE"
     THEN result' = Failure("USAGE", [keys |-> {}]) /\ pc' = "done"
     ELSE UNCHANGED result /\ pc' = "flow_loop"
  /\ UNCHANGED <<calls, fl, fc, ti, wt, st, cmd, pf>>

\* cmdUIFlow up to the loop: the checks of the arguments and of the file
FlowArgs ==
  /\ pc = "flow_args"
  /\ IF fl.resumeFrom <= 0
     THEN result' = Failure("USAGE", [keys |-> {}]) /\ pc' = "done"
     ELSE IF ~fl.fileOK
     THEN result' = Failure("IO_ERROR", [keys |-> {"cause"}]) /\ pc' = "done"
     ELSE IF Len(fl.steps) = 0
     THEN result' = Failure("USAGE", [keys |-> {}]) /\ pc' = "done"
     ELSE IF fl.resumeFrom > Len(fl.steps)
     THEN result' = Failure("USAGE", [keys |-> {}]) /\ pc' = "done"
     ELSE UNCHANGED result /\ pc' = "flow_loop"
  /\ UNCHANGED <<calls, fl, fc, ti, wt, st, cmd, pf>>

\* one pass of the loop: execute step i; on failure capture the artifacts
\* and return FLOW_STEP_FAILED
FlowStep ==
  /\ pc = "flow_loop"
  /\ fl.i < Len(fl.steps)
  /\ LET step == fl.steps[fl.i + 1]
     IN \E device \in StepOutcomes[NormalizedAction[step.Action]] :
          LET stepErr == executeFlowStep(step, device)
          IN /\ fl' = [fl EXCEPT !.executed = Append(@, fl.i + 1),
                                 !.outcomes = Append(@, stepErr),
                                 !.i = IF stepErr = "ok" THEN @ + 1 ELSE @]
             /\ IF stepErr = "ok"
                THEN UNCHANGED <<result, pc>>
                ELSE \E mkdirOK, screenshotOK, describeOK \in BOOLEAN :
                       /\ result' = FlowStepFailed(fl.i, step, stepErr,
                             captureFailureArtifacts(mkdirOK, screenshotOK, describeOK))
                       /\ pc' = "done"
  /\ UNCHANGED <<calls, fc, ti, wt, st, cmd, pf>>

\* the loop ran off the end of the step list
FlowCompleted ==
  /\ pc = "flow_loop"
  /\ fl.i >= Len(fl.steps)
  /\ result' = Success([keys |-> {"resumeFrom", "steps"},
                        resumeFrom |-> fl.resumeFrom, steps |-> fl.executed])
  /\ pc' = "done"
  /\ UNCHANGED <<calls, fl, fc, ti, wt, st, cmd, pf>>

\* the user runs the same flow file again, from the step the failure reported
FlowResume ==
  /\ pc = "done"
  /\ result.code = "FLOW_STEP_FAILED"
  /\ fl.invocation < MaxInvocations
  /\ fl' = FlowInvocation(fl.steps, fl.fileOK, result.details.resumeFrom,
                          fl.invocation + 1, result)
  /\ result' = NoResult
  /\ pc' = "flow_args"
  /\ UNCHANGED <<calls, fc, ti, wt, st, cmd, pf>>

NextFlow == FlowArgs \/ FlowStep \/ FlowCompleted \/ FlowResume

SpecFlow == InitFlow /\ [][NextFlow]_vars

----------------------------------------------------------------------------
(* Condition Waiter: waitForCondition, matchingTextSamples, elementText    *)

MaxWaitTicks == 3      \* longest timeout, in clock ticks

\* strings.Join(parts, " ") for the four parts of elementText
JoinParts(a, b, c, d) == a \o <<" ">> \o b \o <<" ">> \o c \o <<" ">> \o d

elementText(elem) ==
  ToLower(JoinParts(TrimSpace(elem.Label), TrimSpace(elem.Value),
                    TrimSpace(elem.NearbyLabel), TrimSpace(Runes[elem.Role])))

\* the sample matchingTextSamples reports for an element
TextSample(elem) == TrimSpace(elem.Label \o <<" ">> \o elem.Value)

\* the elements a poll can see: "a" reads "Ab", "b" reads "a" with value "B"
WaitFrame == Rect(0, 0, 100, 20)
WaitElements ==
  {Element("a", "Button", <<"A", "b">>, <<>>, FALSE, visible, WaitFrame) :
     visible \in BOOLEAN}
  \cup {Element("b", role, <<"a">>, <<"B">>, FALSE, TRUE, WaitFrame) :
     role \in {"Button", "StaticText"}}
WaitSnapshots == SnapshotsOver(WaitElements)

\* --has-text as the callers pass it (trimmed), --interactive-min, and the
\* durations in ticks; a flow wait step may pass a zero timeout or interval
WaitNeedles == {<<>>, <<"A", "B">>, <<"a", " ", "b">>}
WaitInteractiveMins == {-1, 1, 2}
WaitTimeouts == {0, MaxWaitTicks - 1, MaxWaitTicks}
WaitIntervals == {0, 1}
PollTicks == {1, 2}    \* the time a describe-all call takes

TargetTextOf == [hasText \in WaitNeedles |-> ToLower(TrimSpace(hasText))]

ElementTextContains == [needle \in WaitNeedles |->
  [elem \in WaitElements |-> Contains(ToLower(elementText(elem)), TargetTextOf[needle])]]

\* matchingTextSamples accepting an element on its label alone
matchingTextSamplesLabelOnly(elements, hasText) ==
  IF TargetTextOf[hasText] = <<>> THEN <<>>
  ELSE LET hits == SelectSeq(elements, LAMBDA e :
                     e.Enabled /\ Contains(ToLower(e.Label), TargetTextOf[hasText]))
           out == [j \in 1..Len(hits) |-> TextSample(hits[j])]
       IN SubSeq(out, 1, Min2(Len(out), 3))

\* matchingTextSamples(elements, targetText): at most three samples
matchingTextSamples(elements, hasText) ==
  IF TargetTextOf[hasText] = <<>> THEN <<>>
  ELSE LET hits == SelectSeq(elements, LAMBDA e :
                     e.Enabled /\ ElementTextContains[hasText][e])
           out == [j \in 1..Len(hits) |-> TextSample(hits[j])]
       IN SubSeq(out, 1, Min2(Len(out), 3))

WaitSuccess(attempts, elapsed, interactive, hasText, targetText, textMatches) ==
  Success([keys |-> {"attempts", "elapsedMs", "interactive"}
                      \cup (IF targetText # <<>> THEN {"hasText", "matches"} ELSE {}),
           attempts |-> attempts, elapsedMs |-> elapsed,
           interactive |-> interactive, hasText |-> hasText,
           matches |-> textMatches])

\* the WAIT_TIMEOUT error without its lastError entry
WaitTimeoutWithoutLastError(w, attempts, elapsed, lastInteractive, lastMatches, lastErr) ==
  Failure("WAIT_TIMEOUT",
    [keys |-> {"attempts", "elapsedMs", "interactive", "interactiveMin"}
                \cup (IF TargetTextOf[w.hasText] # <<>>
                      THEN {"hasText", "lastMatches"} ELSE {}),
     attempts |-> attempts, elapsedMs |-> elapsed,
     interactive |-> lastInteractive, interactiveMin |-> w.interactiveMin,
     hasText |-> w.hasText, lastMatches |-> lastMatches, lastError |-> NoError])

WaitTimeout(w, attempts, elapsed, lastInteractive, lastMatches, lastErr) ==
  Failure("WAIT_TIMEOUT",
    [keys |-> {"attempts", "elapsedMs", "interactive", "interactiveMin"}
                \cup (IF TargetTextOf[w.hasText] # <<>>
                      THEN {"hasText", "lastMatches"} ELSE {})
                \cup (IF lastErr # NoError THEN {"lastError"} ELSE {}),
     attempts |-> attempts, elapsedMs |-> elapsed,
     interactive |-> lastInteractive, interactiveMin |-> w.interactiveMin,
     hasText |-> w.hasText, lastMatches |-> lastMatches, lastError |-> lastErr])

\* the snapshot of the poll just made, the number of failed polls and the
\* error of the latest failed poll are kept for the properties
Fetched(elements) == [ok |-> TRUE, elements |-> elements]
NotFetched == [ok |-> FALSE, elements |-> <<>>]

InitWait ==
  /\ pc = "wait_poll"
  /\ calls = <<>>
  /\ result = NoResult
  /\ \E hasText \in WaitNeedles, interactiveMin \in WaitInteractiveMins,
        timeout \in WaitTimeouts, interval \in WaitIntervals :
       wt = [hasText |-> hasText, interactiveMin |-> interactiveMin,
             timeout |-> timeout, interval |-> interval,
             elapsed |-> 0, attempts |-> 0, lastInteractive |-> 0,
             lastMatches |-> <<>>, lastErr |-> NoError,
             snapshot |-> NotFetched, failedPolls |-> 0,
             lastFailure |-> NoError]
  /\ fc = Idle /\ ti = Idle /\ fl = Idle /\ st = Idle /\ cmd = Idle /\ pf = Idle

\* the rest of a pass that goes round again when the time equals the timeout
WaitOrTimeOutOnlyPast(w) ==
  IF w.elapsed > w.timeout
  THEN /\ result' = WaitTimeout(w, w.attempts, w.elapsed, w.lastInteractive,
                                w.lastMatches, w.lastErr)
       /\ wt' = w
       /\ pc' = "done"
       /\ calls' = Append(calls, DescribeCall)
  ELSE /\ wt' = [w EXCEPT !.elapsed = @ + w.interval]
       /\ calls' = calls \o <<DescribeCall, SleepCall(w.interval)>>
       /\ UNCHANGED <<result, pc>>

\* the rest of a pass whose poll did not satisfy the condition: time out,
\* or sleep for the interval and go round again
WaitOrTimeOut(w) ==
  IF w.elapsed >= w.timeout
  THEN /\ result' = WaitTimeout(w, w.attempts, w.elapsed, w.lastInteractive,
                                w.lastMatches, w.lastErr)
       /\ wt' = w
       /\ pc' = "done"
       /\ calls' = Append(calls, DescribeCall)
  ELSE /\ wt' = [w EXCEPT !.elapsed = @ + w.interval]
       /\ calls' = calls \o <<DescribeCall, SleepCall(w.interval)>>
       /\ UNCHANGED <<result, pc>>

\* one pass of the loop whose describe-all call failed
WaitPollFailed ==
  /\ pc = "wait_poll"
  /\ \E ticks \in PollTicks, cause \in TransportCodes :
       WaitOrTimeOut([wt EXCEPT !.attempts = @ + 1,
                                  !.elapsed = @ + ticks,
                                  !.lastErr = SnapshotError(cause),
                                  !.snapshot = NotFetched,
                                  !.failedPolls = @ + 1,
                                  !.lastFailure = SnapshotError(cause)])
  /\ UNCHANGED <<fc, ti, fl, st, cmd, pf>>

\* one pass of the loop whose describe-all call returned a tree
WaitPoll ==
  /\ pc = "wait_poll"
  /\ \E ticks \in PollTicks, elements \in WaitSnapshots :
       LET snapshot == elementSnapshot(elements)
           targetText == TargetTextOf[wt.hasText]
           textMatches == matchingTextSamples(elements, wt.hasText)
           interactiveOK == wt.interactiveMin < 0
                              \/ snapshot.InteractiveCount >= wt.interactiveMin
           textOK == targetText = <<>> \/ Len(textMatches) > 0
           w == [wt EXCEPT !.attempts = @ + 1,
                           !.elapsed = @ + ticks,
                           !.lastErr = NoError,
                           !.lastInteractive = snapshot.InteractiveCount,
                           !.lastMatches = textMatches,
                           !.snapshot = Fetched(elements)]
       IN IF interactiveOK /\ textOK
          THEN /\ result' = WaitSuccess(w.attempts, w.elapsed,
                               snapshot.InteractiveCount, wt.hasText,
                               targetText, textMatches)
               /\ wt' = w
               /\ pc' = "done"
               /\ calls' = Append(calls, DescribeCall)
          ELSE WaitOrTimeOut(w)
  /\ UNCHANGED <<fc, ti, fl, st, cmd, pf>>

NextWait == WaitPoll \/ WaitPollFailed

SpecWait == InitWait /\ [][NextWait]_vars

\* every call returns and the clock advances, so the loop keeps turning
SpecWaitLive == SpecWait /\ WF_vars(NextWait)

\* The waiter from its two entries: the wait case of cmdUI checks the
\* condition and the durations, the wait step of executeFlowStep only
\* parses the durations
InitWaitEntry ==
  /\ pc = "wait_args"
  /\ calls = <<>>
  /\ result = NoResult
  /\ \E entry \in {"cli", "flow"}, parsed \in BOOLEAN, hasText \in WaitNeedles,
        interactiveMin \in WaitInteractiveMins,
        timeout \in WaitTimeouts, interval \in WaitIntervals :
       wt = [entry |-> entry, parsed |-> parsed,
             hasText |-> hasText, interactiveMin |-> interactiveMin,
             timeout |-> timeout, interval |-> interval,
             elapsed |-> 0, attempts |-> 0, lastInteractive |-> 0,
             lastMatches |-> <<>>, lastErr |-> NoError,
             snapshot |-> NotFetched, failedPolls |-> 0,
             lastFailure |-> NoError]
  /\ fc = Idle /\ ti = Idle /\ fl = Idle /\ st = Idle /\ cmd = Idle /\ pf = Idle

WaitArgs ==
  /\ pc = "wait_args"
  /\ LET Fail(code) == /\ result' = Failure(code, [keys |-> {}])
                       /\ pc' = "done"
         Wait == /\ pc' = "wait_poll"
                 /\ UNCHANGED result
     IN IF ~wt.parsed THEN Fail("USAGE")
        ELSE IF wt.entry = "flow" THEN Wait
        ELSE IF TrimSpace(wt.hasText) = <<>> /\ wt.interactiveMin < 0 THEN Fail("USAGE")
        ELSE IF wt.timeout <= 0 THEN Fail("USAGE")
        ELSE IF wt.interval <= 0 THEN Fail("USAGE")
        ELSE Wait
  /\ UNCHANGED <<calls, wt, fc, ti, fl, st, cmd, pf>>

NextWaitEntry == WaitArgs \/ NextWait

SpecWaitEntry == InitWaitEntry /\ [][NextWaitEntry]_vars

----------------------------------------------------------------------------
(* Stability Sampler: captureStableUISamples, captureUISample,             *)
(* hashElementSet, allStringsEqual                                         *)

MaxSamples == 3        \* largest --stable-samples

\* hashElementSet: FNV-64a over one line per element made of the ID, the
\* lower-cased trimmed role, the trimmed label and value, the frame and the
\* three flags.  The model keeps the lines themselves, so two element lists
\* have the same hash exactly when they print the same lines.
HashLine(elem) ==
  <<elem.ID, ToLower(TrimSpace(Runes[elem.Role])), TrimSpace(elem.Label),
    TrimSpace(elem.Value), elem.Frame, elem.Enabled, elem.Visible, elem.Offscreen>>

hashElementSet(elements) == [j \in 1..Len(elements) |-> HashLine(elements[j])]

\* allStringsEqual looking at the first two values only
allStringsEqualFirstTwo(values) ==
  IF Len(values) <= 1 THEN TRUE ELSE values[2] = values[1]

allStringsEqual(values) ==
  IF Len(values) <= 1 THEN TRUE
  ELSE LET base == values[1]
       IN \A j \in 2..Len(values) : values[j] = base

\* the elements a sample can hold: the same field with and without the
\* focus, and with another label
StableFrame == Rect(0, 0, 100, 20)
StableElements ==
  {Element("a", "TextField", <<"a">>, <<>>, FALSE, TRUE, StableFrame),
   Element("a", "TextField", <<"a">>, <<>>, TRUE, TRUE, StableFrame),
   Element("a", "TextField", <<"b">>, <<>>, FALSE, TRUE, StableFrame)}
StableSnapshots == SnapshotsOver(StableElements)

\* --stable-samples (cmdFrame rejects values below 2) and --stable-interval
StableSampleCounts == 2..MaxSamples
StableIntervals == {0, 1}

frameUISample(elements) ==
  [Elements |-> elements, AllCount |-> Len(elements), Hash |-> hashElementSet(elements)]

FrameUnstable(hashes, stableSamples, stableInterval) ==
  Failure("FRAME_UNSTABLE",
    [keys |-> {"hashes", "samples", "interval"},
     hashes |-> hashes, samples |-> stableSamples, interval |-> stableInterval])

InitStable ==
  /\ pc = "stable_sample"
  /\ calls = <<>>
  /\ result = NoResult
  /\ \E stableSamples \in StableSampleCounts, stableInterval \in StableIntervals :
       st = [StableSamples |-> stableSamples, StableInterval |-> stableInterval,
             i |-> 0, samples |-> <<>>, hashes |-> <<>>]
  /\ fc = Idle /\ ti = Idle /\ fl = Idle /\ wt = Idle /\ cmd = Idle /\ pf = Idle

\* one pass of the loop whose capture failed: the error is returned as it is
StableSampleFailed ==
  /\ pc = "stable_sample"
  /\ \E cause \in TransportCodes :
       /\ calls' = Append(calls, DescribeCall)
       /\ result' = Failure("IDB_UI_FAILED",
                            [keys |-> {"causeCode"}, causeCode |-> cause])
  /\ pc' = "done"
  /\ UNCHANGED <<st, fc, ti, fl, wt, cmd, pf>>

\* one pass of the loop whose capture succeeded; after the last pass the
\* hashes are compared
StableSample ==
  /\ pc = "stable_sample"
  /\ \E elements \in StableSnapshots :
       LET sample == frameUISample(elements)
           samples == Append(st.samples, sample)
           hashes == Append(st.hashes, sample.Hash)
           last == ~(st.i + 1 < st.StableSamples)
           sleeps == ~last /\ st.StableInterval > 0
       IN /\ calls' = Append(calls, DescribeCall)
                        \o (IF sleeps THEN <<SleepCall(st.StableInterval)>> ELSE <<>>)
          /\ st' = [st EXCEPT !.i = @ + 1, !.samples = samples, !.hashes = hashes]
          /\ IF ~last
             THEN UNCHANGED <<result, pc>>
             ELSE /\ pc' = "done"
                  /\ result' = IF ~allStringsEqual(hashes)
                               THEN FrameUnstable(hashes, st.StableSamples,
                                                  st.StableInterval)
                               ELSE Success([keys |-> {"samples"},
                                             samples |-> samples])
  /\ UNCHANGED <<fc, ti, fl, wt, cmd, pf>>

NextStable == StableSample \/ StableSampleFailed

SpecStable == InitStable /\ [][NextStable]_vars

----------------------------------------------------------------------------
(* Selector Resolver: countElementSelectors, pickElementBySelectors,       *)
(* pickElement, pickElementByText and the two fallbacks                    *)

\* normalizeElements numbers the elements it returns from 1
Indexed(elements) == [i \in 1..Len(elements) |-> [Index |-> i] @@ elements[i]]

\* a lookup that found elem, and one that failed with code
Picked(elem) == [ok |-> TRUE, elem |-> elem, code |-> ""]
NotPicked(code) == [ok |-> FALSE, elem |-> NoElement, code |-> code]

\* index is an int, id names a string of Runes, label and contains are rune sequences
countElementSelectors(index, id, label, contains) ==
  (IF index >= 0 THEN 1 ELSE 0)
  + (IF TrimSpace(Runes[id]) # <<>> THEN 1 ELSE 0)
  + (IF TrimSpace(label) # <<>> THEN 1 ELSE 0)
  + (IF TrimSpace(contains) # <<>> THEN 1 ELSE 0)

\* the first element in sequence order with the Index, or else with the ID
pickElement(elements, index, id) ==
  IF index >= 0
  THEN LET hits == {i \in DOMAIN elements : elements[i].Index = index}
       IN IF hits = {} THEN NotPicked("ELEMENT_NOT_FOUND")
          ELSE Picked(elements[SetMin(hits)])
  ELSE IF Runes[id] # <<>>
  THEN LET hits == {i \in DOMAIN elements : elements[i].ID = id}
       IN IF hits = {} THEN NotPicked("ELEMENT_NOT_FOUND")
          ELSE Picked(elements[SetMin(hits)])
  ELSE NotPicked("USAGE")

\* strings.EqualFold on the runes of the model
EqualFold(a, b) == ToLower(a) = ToLower(b)

\* the score pickElementByText gives an element that stays a candidate
TextScore(elem, exactLabel, partial) ==
  (IF exactLabel # <<>> /\ EqualFold(TrimSpace(elem.Label), exactLabel) THEN 90 ELSE 0)
  + (IF exactLabel # <<>> /\ EqualFold(TrimSpace(elem.Value), exactLabel) THEN 75 ELSE 0)
  + (IF exactLabel # <<>> /\ EqualFold(TrimSpace(elem.NearbyLabel), exactLabel) THEN 55 ELSE 0)
  + (IF partial # <<>> THEN 45 ELSE 0)
  + (IF elem.Visible THEN 24 ELSE 0)
  + (IF ~elem.Offscreen THEN 10 ELSE 0)
  + (IF isInteractiveRole(elem.Role) THEN 15 ELSE 0)
  + (IF TrimSpace(elem.Label) # <<>> THEN 8 ELSE 0)

\* whether pickElementByText keeps the element as a candidate
TextCandidate(elem, exactLabel, partial) ==
  /\ elem.Enabled
  /\ exactLabel # <<>> =>
       \/ EqualFold(TrimSpace(elem.Label), exactLabel)
       \/ EqualFold(TrimSpace(elem.Value), exactLabel)
       \/ EqualFold(TrimSpace(elem.NearbyLabel), exactLabel)
  /\ partial # <<>> => Contains(ToLower(elementText(elem)), partial)

\* the candidate sort.Slice puts first: highest Score, then lowest Index
BestCandidate(elements, candidates, score) ==
  LET top == SetMax({score[i] : i \in candidates})
      tops == {i \in candidates : score[i] = top}
      low == SetMin({elements[i].Index : i \in tops})
  IN elements[CHOOSE i \in tops : elements[i].Index = low]

\* pickElementByText that breaks ties of the score by the highest Index
pickElementByTextLastWins(elements, label, contains) ==
  LET exactLabel == ToLower(TrimSpace(label))
      partial == ToLower(TrimSpace(contains))
      candidates == {i \in DOMAIN elements : TextCandidate(elements[i], exactLabel, partial)}
      top == SetMax({TextScore(elements[i], exactLabel, partial) : i \in candidates})
      tops == {i \in candidates : TextScore(elements[i], exactLabel, partial) = top}
  IN IF candidates = {} THEN NotPicked("ELEMENT_NOT_FOUND")
     ELSE Picked(elements[SetMax(tops)])

\* pickElementByText that keeps disabled elements as candidates
pickElementByTextAnyEnabled(elements, label, contains) ==
  LET exactLabel == ToLower(TrimSpace(label))
      partial == ToLower(TrimSpace(contains))
      candidates == {i \in DOMAIN elements :
                       TextCandidate([elements[i] EXCEPT !.Enabled = TRUE], exactLabel, partial)}
  IN IF candidates = {} THEN NotPicked("ELEMENT_NOT_FOUND")
     ELSE Picked(BestCandidate(elements, candidates,
            [i \in candidates |-> TextScore(elements[i], exactLabel, partial)]))

pickElementByText(elements, label, contains) ==
  LET exactLabel == ToLower(TrimSpace(label))
      partial == ToLower(TrimSpace(contains))
      candidates == {i \in DOMAIN elements : TextCandidate(elements[i], exactLabel, partial)}
  IN IF candidates = {} THEN NotPicked("ELEMENT_NOT_FOUND")
     ELSE Picked(BestCandidate(elements, candidates,
            [i \in candidates |-> TextScore(elements[i], exactLabel, partial)]))

\* pickElementBySelectors that looks up by the first selector set
pickElementBySelectorsFirstWins(elements, index, id, label, contains) ==
  LET l == TrimSpace(label)
      c == TrimSpace(contains)
      i == TrimmedID[id]
  IN IF countElementSelectors(index, i, l, c) = 0 THEN NotPicked("USAGE")
     ELSE IF index >= 0 \/ Runes[i] # <<>> THEN pickElement(elements, index, i)
     ELSE pickElementByText(elements, l, c)

pickElementBySelectors(elements, index, id, label, contains) ==
  LET l == TrimSpace(label)
      c == TrimSpace(contains)
      i == TrimmedID[id]
      count == countElementSelectors(index, i, l, c)
  IN IF count = 0 THEN NotPicked("USAGE")
     ELSE IF count = 1
     THEN IF index >= 0 \/ Runes[i] # <<>> THEN pickElement(elements, index, i)
          ELSE pickElementByText(elements, l, c)
     ELSE NotPicked("USAGE")

containsAnyToken(str, tokens) == \E token \in tokens : Contains(str, token)

\* the token lists as the source has them; some of their entries are ""
SystemRightTokens == {<<"a", "d", "d">>, <<"d", "o", "n", "e">>, <<"o", "k">>, <<"a", "l", "l", "o", "w">>, <<"c", "h", "o", "o", "s", "e">>, <<"s", "e", "l", "e", "c", "t">>, <<>>}
SystemLeftTokens == {<<"c", "a", "n", "c", "e", "l">>, <<"c", "l", "o", "s", "e">>, <<"b", "a", "c", "k">>, <<"d", "i", "s", "m", "i", "s", "s">>, <<>>}
IntentBackTokens == {<<"b", "a", "c", "k">>, <<>>, <<"c", "l", "o", "s", "e">>, <<"d", "i", "s", "m", "i", "s", "s">>}
IntentCheckTokens == {<<"c", "h", "e", "c", "k">>, <<"c", "h", "e", "c", "k", "b", "o", "x">>, <<>>, <<"d", "e", "b", "u", "g">>}
NearbyCheckTokens == {<<>>, <<"d", "e", "b", "u", "g">>}

\* the query the fallbacks work on
FallbackQuery(label, contains) ==
  IF ToLower(TrimSpace(label)) # <<>> THEN ToLower(TrimSpace(label))
  ELSE ToLower(TrimSpace(contains))

Abs(n) == IF n < 0 THEN 0 - n ELSE n

\* the loop of pickSystemFallbackElement over the elements from position i on
RECURSIVE SystemFallbackFrom(_, _, _, _, _)
SystemFallbackFrom(elements, i, best, rightIntent, leftIntent) ==
  IF i > Len(elements) THEN best
  ELSE LET elem == elements[i]
           skip == \/ ~elem.Enabled \/ ~elem.Visible
                   \/ elem.Frame.Y > 180
                   \/ /\ ~isInteractiveRole(elem.Role)
                      /\ ~Contains(ToLower(Runes[elem.Role]),
                                   <<"n", "a", "v", "i", "g", "a", "t", "i", "o", "n">>)
           next ==
             IF skip THEN best
             ELSE IF ~best.ok THEN Picked(elem)
             ELSE IF elem.Center.Y < best.elem.Center.Y THEN Picked(elem)
             ELSE IF Abs(elem.Center.Y - best.elem.Center.Y) <= 20
             THEN LET right == IF rightIntent /\ elem.Center.X > best.elem.Center.X
                               THEN Picked(elem) ELSE best
                  IN IF leftIntent /\ elem.Center.X < right.elem.Center.X
                     THEN Picked(elem) ELSE right
             ELSE best
       IN SystemFallbackFrom(elements, i + 1, next, rightIntent, leftIntent)

pickSystemFallbackElement(elements, label, contains) ==
  LET query == FallbackQuery(label, contains)
      rightIntent == containsAnyToken(query, SystemRightTokens)
      leftIntent == containsAnyToken(query, SystemLeftTokens)
  IN IF query = <<>> THEN NotPicked("")
     ELSE IF ~rightIntent /\ ~leftIntent THEN NotPicked("")
     ELSE SystemFallbackFrom(elements, 1, NotPicked(""), rightIntent, leftIntent)

IntentScore(elem, query, wantBack, wantCheck) ==
  (IF Contains(ToLower(elementText(elem)), query) THEN 60 ELSE 0)
  + (IF wantBack /\ elem.Center.Y <= 180 THEN 25 ELSE 0)
  + (IF wantBack /\ elem.Center.X <= 120 THEN 20 ELSE 0)
  + (IF wantCheck /\ Contains(ToLower(Runes[elem.Role]), <<"s", "w", "i", "t", "c", "h">>)
     THEN 45 ELSE 0)
  + (IF wantCheck /\ elem.Frame.W <= 64 /\ elem.Frame.H <= 64 THEN 22 ELSE 0)
  + (IF wantCheck /\ containsAnyToken(ToLower(elem.NearbyLabel), NearbyCheckTokens)
     THEN 28 ELSE 0)
  + (IF TrimSpace(elem.Label) = <<>> THEN 10 ELSE 0)

\* pickIntentFallbackElement without the return on an empty query
pickIntentFallbackElementAnyQuery(elements, label, contains) ==
  LET query == FallbackQuery(label, contains)
      wantBack == containsAnyToken(query, IntentBackTokens)
      wantCheck == containsAnyToken(query, IntentCheckTokens)
      candidates == {i \in DOMAIN elements :
                       /\ elements[i].Enabled /\ elements[i].Visible
                       /\ isInteractiveRole(elements[i].Role)
                       /\ IntentScore(elements[i], query, wantBack, wantCheck) > 0}
  IN IF ~wantBack /\ ~wantCheck THEN NotPicked("")
     ELSE IF candidates = {} THEN NotPicked("")
     ELSE Picked(BestCandidate(elements, candidates,
            [i \in candidates |-> IntentScore(elements[i], query, wantBack, wantCheck)]))

pickIntentFallbackElement(elements, label, contains) ==
  LET query == FallbackQuery(label, contains)
      wantBack == containsAnyToken(query, IntentBackTokens)
      wantCheck == containsAnyToken(query, IntentCheckTokens)
      candidates == {i \in DOMAIN elements :
                       /\ elements[i].Enabled /\ elements[i].Visible
                       /\ isInteractiveRole(elements[i].Role)
                       /\ IntentScore(elements[i], query, wantBack, wantCheck) > 0}
  IN IF query = <<>> THEN NotPicked("")
     ELSE IF ~wantBack /\ ~wantCheck THEN NotPicked("")
     ELSE IF candidates = {} THEN NotPicked("")
     ELSE Picked(BestCandidate(elements, candidates,
            [i \in candidates |-> IntentScore(elements[i], query, wantBack, wantCheck)]))

----------------------------------------------------------------------------
(* `ui tap`: the tap case of cmdUI                                         *)

\* what loadElementsAndTransform returns: the elements and the scale of
\* the last frame (or of --from), or an error
Loaded(elements, scale) == [ok |-> TRUE, code |-> "", elements |-> elements, scale |-> scale]
NotLoaded(code) == [ok |-> FALSE, code |-> code, elements |-> <<>>, scale |-> 0]

\* the element sets of the model, numbered as normalizeElements numbers them
TapSnapshots == {Indexed(elements) : elements \in WaitSnapshots}

TapUnits == {"pt", "px", "em"}
TapIndexes == {-1, 0, 1}
TapIDs == {"", " ", "a"}
TapLabels == {<<>>, <<" ">>, <<"A", "b">>}
TapContains == {<<>>, <<"b">>}
TapLoads == {NotLoaded("NO_LAST_FRAME"), NotLoaded("IO_ERROR")}
              \cup {Loaded(elements, 2) : elements \in TapSnapshots}
              \cup {Loaded(<<>>, 0)}
TapXY == Point(40, 20)     \* the positional x and y, when given

\* the mode reported as "by", from the flags and the way the element was found
TapBy(c, found, fallbackUsed) ==
  LET byIndex == IF c.index >= 0 THEN "index" ELSE found
      byID == IF Runes[c.id] # <<>> THEN "id" ELSE byIndex
      byLabel == IF TrimSpace(c.label) # <<>> /\ ~fallbackUsed THEN "label" ELSE byID
  IN IF TrimSpace(c.contains) # <<>> /\ ~fallbackUsed THEN "contains" ELSE byLabel

\* the point tapped for an element
TapPoint(elem) == IF isTextInputRole(elem.Role) THEN focusPointForElement(elem) ELSE elem.Center

InitTap ==
  /\ pc = "tap_args"
  /\ calls = <<>>
  /\ result = NoResult
  /\ \E unit \in TapUnits, index \in TapIndexes, id \in TapIDs, label \in TapLabels,
        contains \in TapContains, from \in BOOLEAN, coords \in BOOLEAN, load \in TapLoads :
       cmd = [unit |-> unit, index |-> index, id |-> id, label |-> label,
              contains |-> contains, from |-> from, coords |-> coords,
              load |-> load, pickErr |-> "", by |-> "coord",
              fallbackUsed |-> FALSE, point |-> Point(0, 0)]
  /\ fc = Idle /\ ti = Idle /\ fl = Idle /\ wt = Idle /\ st = Idle /\ pf = Idle

\* the handler up to its first call to the device: the checks of the flags
\* and the lookup in the cached element set
TapArgs ==
  /\ pc = "tap_args"
  /\ LET selectorCount == countElementSelectors(cmd.index, cmd.id, cmd.label, cmd.contains)
         mustLoad == cmd.from \/ cmd.index >= 0 \/ TrimSpace(Runes[cmd.id]) # <<>>
         elements == IF cmd.load.ok THEN cmd.load.elements ELSE <<>>
         picked == pickElementBySelectors(elements, cmd.index, cmd.id,
                                          TrimSpace(cmd.label), TrimSpace(cmd.contains))
         Fail(code) == /\ result' = Failure(code, [keys |-> {}])
                       /\ pc' = "done"
                       /\ cmd' = cmd
     IN IF cmd.unit \notin {"pt", "px"} THEN Fail("USAGE")
        ELSE IF selectorCount > 1 THEN Fail("USAGE")
        ELSE IF selectorCount > 0
        THEN IF mustLoad /\ ~cmd.load.ok THEN Fail(cmd.load.code)
             ELSE IF picked.ok
             THEN /\ cmd' = [cmd EXCEPT !.point = TapPoint(picked.elem),
                                        !.by = TapBy(cmd, "coord", FALSE)]
                  /\ pc' = "tap_issue"
                  /\ UNCHANGED result
             ELSE /\ cmd' = [cmd EXCEPT !.pickErr = picked.code]
                  /\ pc' = "tap_scan"
                  /\ UNCHANGED result
        ELSE IF ~cmd.coords THEN Fail("USAGE")
        ELSE IF cmd.unit = "px"
        THEN IF ~cmd.load.ok THEN Fail(cmd.load.code)
             ELSE IF cmd.load.scale <= 0 THEN Fail("COORD_TRANSFORM_FAILED")
             ELSE /\ cmd' = [cmd EXCEPT !.point = Point(TapXY.X \div cmd.load.scale,
                                                        TapXY.Y \div cmd.load.scale)]
                  /\ pc' = "tap_issue"
                  /\ UNCHANGED result
        ELSE /\ cmd' = [cmd EXCEPT !.point = TapXY]
             /\ pc' = "tap_issue"
             /\ UNCHANGED result
  /\ UNCHANGED <<calls, fc, ti, fl, wt, st, pf>>

\* the cached set had no such element: a snapshot is taken and searched,
\* then the two fallbacks are asked; a failed snapshot leaves the first error
TapScan ==
  /\ pc = "tap_scan"
  /\ calls' = Append(calls, DescribeCall)
  /\ \/ /\ \E cause \in TransportCodes : TRUE
        /\ result' = Failure(cmd.pickErr, [keys |-> {}])
        /\ pc' = "done"
        /\ cmd' = cmd
     \/ \E elements \in TapSnapshots :
          LET usedLabel == TrimSpace(cmd.label)
              usedContains == TrimSpace(cmd.contains)
              byText == usedLabel # <<>> \/ usedContains # <<>>
              live == pickElementBySelectors(elements, cmd.index, cmd.id,
                                             usedLabel, usedContains)
              intent == pickIntentFallbackElement(elements, usedLabel, usedContains)
              system == pickSystemFallbackElement(elements, usedLabel, usedContains)
          IN IF live.ok
             THEN /\ cmd' = [cmd EXCEPT !.point = TapPoint(live.elem),
                                        !.by = TapBy(cmd, "live-scan", FALSE)]
                  /\ pc' = "tap_issue"
                  /\ UNCHANGED result
             ELSE IF byText /\ intent.ok
             THEN /\ cmd' = [cmd EXCEPT !.point = TapPoint(intent.elem),
                                        !.by = TapBy(cmd, "intent-fallback", TRUE),
                                        !.fallbackUsed = TRUE]
                  /\ pc' = "tap_issue"
                  /\ UNCHANGED result
             ELSE IF byText /\ system.ok
             THEN /\ cmd' = [cmd EXCEPT !.point = TapPoint(system.elem),
                                        !.by = TapBy(cmd, "system-fallback", TRUE),
                                        !.fallbackUsed = TRUE]
                  /\ pc' = "tap_issue"
                  /\ UNCHANGED result
             ELSE /\ result' = Failure(live.code, [keys |-> {}])
                  /\ pc' = "done"
                  /\ cmd' = cmd
  /\ UNCHANGED <<fc, ti, fl, wt, st, pf>>

\* the tap itself
TapIssue ==
  /\ pc = "tap_issue"
  /\ calls' = Append(calls, TapCall(cmd.point))
  /\ \E out \in CallOutcomes :
       result' = IF out = "ok"
                 THEN Success([keys |-> {"by", "targetPt"}, by |-> cmd.by,
                               targetPt |-> cmd.point])
                 ELSE Failure("IDB_UI_FAILED",
                        wrapAppErrCode(runCommandError(out), "IDB_UI_FAILED", "tap failed").details)
  /\ pc' = "done"
  /\ UNCHANGED <<cmd, fc, ti, fl, wt, st, pf>>

NextTap == TapArgs \/ TapScan \/ TapIssue

SpecTap == InitTap /\ [][NextTap]_vars

----------------------------------------------------------------------------
(* pickElementBySelectors applied to any combination of selectors          *)

InitPick ==
  /\ pc = "pick"
  /\ calls = <<>>
  /\ result = NoResult
  /\ \E elements \in TapSnapshots, index \in TapIndexes, id \in TapIDs,
        label \in TapLabels, contains \in TapContains :
       pf = [elements |-> elements, index |-> index, id |-> id,
             label |-> label, contains |-> contains, out |-> NotPicked("")]
  /\ fc = Idle /\ ti = Idle /\ fl = Idle /\ wt = Idle /\ st = Idle /\ cmd = Idle

Pick ==
  /\ pc = "pick"
  /\ pf' = [pf EXCEPT !.out = pickElementBySelectors(pf.elements, pf.index, pf.id,
                                                     pf.label, pf.contains)]
  /\ pc' = "done"
  /\ UNCHANGED <<calls, result, fc, ti, fl, wt, st, cmd>>

SpecPick == InitPick /\ [][Pick]_vars

\* the selector resolver from both of its entries: `ui tap`, and
\* pickElementBySelectors on its own
NextSelectors == NextTap \/ Pick

SpecSelectors == (InitTap \/ InitPick) /\ [][NextSelectors]_vars

----------------------------------------------------------------------------
(* pickElementByText applied to elements as normalizeElements leaves them  *)

MaxCandidates == 3     \* elements handed to pickElementByText

\* an element with the fields pickElementByText reads; visibility is one of
\* the three results of classifyVisibility
TextElement(role, label, value, nearby, enabled, visibility) ==
  [Element("a", role, label, value, FALSE, visibility.visible, WaitFrame)
     EXCEPT !.NearbyLabel = nearby, !.Enabled = enabled,
            !.Offscreen = visibility.offscreen]

OnScreen == [visible |-> TRUE, offscreen |-> FALSE]
PartlyOnScreen == [visible |-> TRUE, offscreen |-> TRUE]
OffScreen == [visible |-> FALSE, offscreen |-> TRUE]

\* a label read from the value (elementFromCandidate) repeats the value; a
\* nearby label is only given to an element without a label
TextElements ==
  {TextElement("Button", <<"A", "b">>, <<>>, <<>>, TRUE, v) :
     v \in {OnScreen, PartlyOnScreen, OffScreen}}
  \cup {TextElement("Button", <<"A", "b">>, <<"A", "b">>, <<>>, TRUE, OffScreen),
        TextElement("Button", <<"A", "b">>, <<>>, <<>>, FALSE, OnScreen),
        TextElement("StaticText", <<"a", "b">>, <<>>, <<>>, TRUE, OnScreen),
        TextElement("TextField", <<>>, <<>>, <<"a", "b">>, TRUE, OnScreen),
        TextElement("StaticText", <<"b">>, <<>>, <<>>, TRUE, OnScreen),
        TextElement("Button", <<"c">>, <<>>, <<>>, TRUE, OnScreen),
        TextElement("StaticText", <<"c">>, <<>>, <<>>, TRUE, OnScreen)}
TextSnapshots == {Indexed(e) : e \in SeqsUpTo(TextElements, MaxCandidates)}

\* the queries pickElementBySelectors passes on: one of label and contains
TextQueries ==
  {[label |-> l, contains |-> <<>>] : l \in {<<"a", "B">>, <<"b">>}}
  \cup {[label |-> <<>>, contains |-> <<"B">>]}

InitPickText ==
  /\ pc = "pick_text"
  /\ calls = <<>>
  /\ result = NoResult
  /\ \E elements \in TextSnapshots, query \in TextQueries :
       pf = [elements |-> elements, label |-> query.label,
             contains |-> query.contains, out |-> NotPicked("")]
  /\ fc = Idle /\ ti = Idle /\ fl = Idle /\ wt = Idle /\ st = Idle /\ cmd = Idle

PickText ==
  /\ pc = "pick_text"
  /\ pf' = [pf EXCEPT !.out = pickElementByText(pf.elements, pf.label, pf.contains)]
  /\ pc' = "done"
  /\ UNCHANGED <<calls, result, fc, ti, fl, wt, st, cmd>>

SpecPickText == InitPickText /\ [][PickText]_vars

----------------------------------------------------------------------------
(* typedMissingSuffix and splitIntoInputChunks applied to bounded texts    *)

MaxSuffixLen == 3      \* longest text handed to typedMissingSuffix
MaxChunkLen == 5       \* longest text handed to splitIntoInputChunks

\* the number of main_test.go and what a field may show of it
Phone == <<"0", "9", "0", "-", "0", "0", "0", "0", "-", "0", "0", "0", "0">>
PhoneShort == <<"0", "9", "0", "-", "0", "0", "0", "0", "-", "0", "0">>
PhoneSpaced == <<"0", "9", "0", " ", "-", "0", "0", "0", "0", "-", "0", "0">>
PhoneOther == <<"0", "9", "1", "-", "0", "0", "0", "0">>

SuffixTexts == SeqsUpTo({"0", "-", " "}, MaxSuffixLen)
SuffixPairs ==
  (SuffixTexts \X SuffixTexts)
  \cup {<<Phone, o>> : o \in {Phone, PhoneShort, PhoneSpaced, PhoneOther, <<>>}}

InitSuffix ==
  /\ pc = "suffix"
  /\ calls = <<>>
  /\ result = NoResult
  /\ \E pair \in SuffixPairs :
       pf = [intended |-> pair[1], observed |-> pair[2],
             out |-> [missing |-> <<>>, comparable |-> FALSE]]
  /\ fc = Idle /\ ti = Idle /\ fl = Idle /\ wt = Idle /\ st = Idle /\ cmd = Idle

Suffix ==
  /\ pc = "suffix"
  /\ pf' = [pf EXCEPT !.out = typedMissingSuffix(pf.intended, pf.observed)]
  /\ pc' = "done"
  /\ UNCHANGED <<calls, result, fc, ti, fl, wt, st, cmd>>

SpecSuffix == InitSuffix /\ [][Suffix]_vars

ChunkTexts == SeqsUpTo({"0", "-"}, MaxChunkLen) \cup {Phone}
ChunkSizes == {-1, 0, 1, 2, InputChunkRunes}

InitChunks ==
  /\ pc = "chunks"
  /\ calls = <<>>
  /\ result = NoResult
  /\ \E text \in ChunkTexts, chunkRunes \in ChunkSizes :
       pf = [text |-> text, chunkRunes |-> chunkRunes, out |-> <<>>]
  /\ fc = Idle /\ ti = Idle /\ fl = Idle /\ wt = Idle /\ st = Idle /\ cmd = Idle

Chunks ==
  /\ pc = "chunks"
  /\ pf' = [pf EXCEPT !.out = splitIntoInputChunks(pf.text, pf.chunkRunes)]
  /\ pc' = "done"
  /\ UNCHANGED <<calls, result, fc, ti, fl, wt, st, cmd>>

SpecChunks == InitChunks /\ [][Chunks]_vars

----------------------------------------------------------------------------
(* Normalizer: normalizeElements, elementFromCandidate, inferScreenRect,   *)
(* classifyVisibility, addNearbyLabels                                     *)

MaxNodes == 3          \* nodes of a raw accessibility tree

\* classifyVisibility that calls a rect visible only when it is fully inside
classifyVisibilityInsideOnly(rect, screen) ==
  IF rect.W <= 0 \/ rect.H <= 0 THEN [visible |-> FALSE, offscreen |-> TRUE]
  ELSE IF screen.W <= 0 \/ screen.H <= 0 THEN [visible |-> TRUE, offscreen |-> FALSE]
  ELSE LET offscreen == \/ rect.X < screen.X \/ rect.Y < screen.Y
                        \/ rect.X + rect.W > screen.X + screen.W
                        \/ rect.Y + rect.H > screen.Y + screen.H
       IN [visible |-> ~offscreen, offscreen |-> offscreen]

classifyVisibility(rect, screen) ==
  IF rect.W <= 0 \/ rect.H <= 0 THEN [visible |-> FALSE, offscreen |-> TRUE]
  ELSE IF screen.W <= 0 \/ screen.H <= 0 THEN [visible |-> TRUE, offscreen |-> FALSE]
  ELSE LET screenRight == screen.X + screen.W
           screenBottom == screen.Y + screen.H
           rectRight == rect.X + rect.W
           rectBottom == rect.Y + rect.H
           interLeft == Max2(rect.X, screen.X)
           interTop == Max2(rect.Y, screen.Y)
           interRight == Min2(rectRight, screenRight)
           interBottom == Min2(rectBottom, screenBottom)
       IN IF interRight <= interLeft \/ interBottom <= interTop
          THEN [visible |-> FALSE, offscreen |-> TRUE]
          ELSE [visible |-> TRUE,
                offscreen |-> \/ rect.X < screen.X \/ rect.Y < screen.Y
                              \/ rectRight > screenRight \/ rectBottom > screenBottom]

\* inferScreenRect for a tree whose root is a list: the box around the
\* elements, its right and bottom edges not below 0
inferScreenRect(elements) ==
  LET boxed == {j \in DOMAIN elements : elements[j].Frame.W > 0 /\ elements[j].Frame.H > 0}
      minX == SetMin({elements[j].Frame.X : j \in boxed})
      minY == SetMin({elements[j].Frame.Y : j \in boxed})
      maxX == SetMax({0} \cup {elements[j].Frame.X + elements[j].Frame.W : j \in boxed})
      maxY == SetMax({0} \cup {elements[j].Frame.Y + elements[j].Frame.H : j \in boxed})
  IN IF boxed = {} THEN Rect(0, 0, 0, 0)
     ELSE IF maxX <= minX \/ maxY <= minY THEN Rect(0, 0, 0, 0)
     ELSE Rect(minX, minY, maxX - minX, maxY - minY)

\* a map of the raw tree as elementFromCandidate reads it
candidateNode(hasRect, frame, id, role, label, value, enabled) ==
  [HasRect |-> hasRect, Frame |-> frame, ID |-> id, Role |-> role,
   Label |-> label, Value |-> value, Enabled |-> enabled]

\* the node at 0-based position k of the root list; its walk order is k + 1
elementFromCandidate(node, k) ==
  IF ~node.HasRect \/ node.Frame.W <= 0 \/ node.Frame.H <= 0
  THEN [ok |-> FALSE, elem |-> NoElement]
  ELSE [ok |-> TRUE,
        elem |-> [ID |-> IF node.ID = "" THEN IDOrder[4 + k] ELSE node.ID,
                  Role |-> node.Role,
                  Label |-> IF node.Label = <<>> /\ node.Value # <<>>
                            THEN node.Value ELSE node.Label,
                  Value |-> node.Value, NearbyLabel |-> <<>>,
                  Enabled |-> node.Enabled, Focused |-> FALSE,
                  Visible |-> TRUE, Offscreen |-> FALSE,
                  Frame |-> node.Frame, Center |-> CenterOf(node.Frame),
                  Index |-> 0, order |-> k + 1]]

frameOptions(order, minArea, includeRoles, excludeRoles, interactiveOnly) ==
  [Order |-> order, MinArea |-> minArea, IncludeRoles |-> includeRoles,
   ExcludeRoles |-> excludeRoles, InteractiveOnly |-> interactiveOnly]

\* the role as the include and exclude maps are keyed
RoleKey(role) == ToLower(TrimSpace(Runes[role]))

\* the node passes the filters that come before the counting
Counted(node, k, opts) ==
  LET c == elementFromCandidate(node, k)
  IN /\ c.ok
     /\ ~(c.elem.Frame.W * c.elem.Frame.H < opts.MinArea)
     /\ opts.IncludeRoles # {} => RoleKey(c.elem.Role) \in opts.IncludeRoles
     /\ RoleKey(c.elem.Role) \notin opts.ExcludeRoles
     /\ c.elem.Enabled

\* the comparison of sort.Slice for the order mode
OrderBefore(order, a, b) ==
  IF order = "reading" THEN ReadingBefore(a, b)
  ELSE IF order = "stable" THEN IDLess(a.ID, b.ID)
  ELSE IF order = "z" THEN a.order < b.order
  ELSE FALSE

IndexOrders(n) == {f \in [1..n -> 1..n] : \A j, k \in 1..n : j # k => f[j] # f[k]}

\* the orders sort.Slice may leave the elements in: sort.Slice is not
\* stable, so elements that compare equal may come out either way; with
\* no sort at all the elements stay as they are
SortedOrders(elements, order) ==
  IF order \notin {"reading", "stable", "z"} THEN {elements}
  ELSE {[j \in 1..Len(elements) |-> elements[f[j]]] : f \in
          {g \in IndexOrders(Len(elements)) :
             \A j, k \in 1..Len(elements) :
                j < k => ~OrderBefore(order, elements[g[k]], elements[g[j]])}}

NearbyLabelRadius == 220

\* addNearbyLabels that takes the label of hidden elements too
addNearbyLabelsFromHidden(elements) ==
  [i \in 1..Len(elements) |->
     LET near == {j \in DOMAIN elements :
                    /\ j # i
                    /\ TrimSpace(elements[j].Label) # <<>>
                    /\ Dist2(elements[i].Center, elements[j].Center) <= NearbyLabelRadius * NearbyLabelRadius}
         best == SetMin({j \in near : \A k \in near :
                    Dist2(elements[i].Center, elements[j].Center)
                      <= Dist2(elements[i].Center, elements[k].Center)})
     IN IF TrimSpace(elements[i].Label) # <<>> \/ near = {} THEN elements[i]
        ELSE [elements[i] EXCEPT !.NearbyLabel = elements[best].Label]]

\* addNearbyLabels: an element without a label takes the label of the
\* nearest visible labelled element within 220pt, the first of the nearest
addNearbyLabels(elements) ==
  [i \in 1..Len(elements) |->
     LET near == {j \in DOMAIN elements :
                    /\ j # i
                    /\ TrimSpace(elements[j].Label) # <<>>
                    /\ elements[j].Visible
                    /\ Dist2(elements[i].Center, elements[j].Center) <= NearbyLabelRadius * NearbyLabelRadius}
         best == SetMin({j \in near : \A k \in near :
                    Dist2(elements[i].Center, elements[j].Center)
                      <= Dist2(elements[i].Center, elements[k].Center)})
     IN IF TrimSpace(elements[i].Label) # <<>> \/ near = {} THEN elements[i]
        ELSE [elements[i] EXCEPT !.NearbyLabel = elements[best].Label]]

\* the Index numbering of normalizeElements, starting at 0
NumberedFromZero(elements) ==
  [i \in 1..Len(elements) |-> [elements[i] EXCEPT !.Index = i - 1]]

\* allCandidates[i].Index = i + 1
Numbered(elements) ==
  [i \in 1..Len(elements) |-> [elements[i] EXCEPT !.Index = i]]

\* normalizeElements that counts the elements it returns
normalizeElementsCountsListed(nodes, opts) ==
  LET counted == {k \in DOMAIN nodes : Counted(nodes[k], k - 1, opts)}
      listed == {k \in counted :
                   opts.InteractiveOnly => isInteractiveRole(nodes[k].Role)}
      positions == SelectSeq([k \in 1..Len(nodes) |-> k], LAMBDA k : k \in listed)
      allCandidates == [j \in 1..Len(positions) |->
                          elementFromCandidate(nodes[positions[j]], positions[j] - 1).elem]
      screenRect == inferScreenRect(allCandidates)
      classified == [j \in 1..Len(allCandidates) |->
                       LET v == classifyVisibility(allCandidates[j].Frame, screenRect)
                       IN [allCandidates[j] EXCEPT !.Visible = v.visible,
                                                   !.Offscreen = v.offscreen]]
  IN {[elements |-> addNearbyLabels(Numbered(sorted)),
       allCount |-> Cardinality(listed),
       interactiveCount |->
         Cardinality({k \in counted : isInteractiveRole(nodes[k].Role)})] :
        sorted \in SortedOrders(classified, opts.Order)}

\* normalizeElements on a root list of nodes: the results it may return
normalizeElements(nodes, opts) ==
  LET counted == {k \in DOMAIN nodes : Counted(nodes[k], k - 1, opts)}
      listed == {k \in counted :
                   opts.InteractiveOnly => isInteractiveRole(nodes[k].Role)}
      positions == SelectSeq([k \in 1..Len(nodes) |-> k], LAMBDA k : k \in listed)
      allCandidates == [j \in 1..Len(positions) |->
                          elementFromCandidate(nodes[positions[j]], positions[j] - 1).elem]
      screenRect == inferScreenRect(allCandidates)
      classified == [j \in 1..Len(allCandidates) |->
                       LET v == classifyVisibility(allCandidates[j].Frame, screenRect)
                       IN [allCandidates[j] EXCEPT !.Visible = v.visible,
                                                   !.Offscreen = v.offscreen]]
  IN {[elements |-> addNearbyLabels(Numbered(sorted)),
       allCount |-> Cardinality(counted),
       interactiveCount |->
         Cardinality({k \in counted : isInteractiveRole(nodes[k].Role)})] :
        sorted \in SortedOrders(classified, opts.Order)}

\* Inputs of the normalizer
RawNodes ==
  {candidateNode(FALSE, Rect(0, 0, 0, 0), "a", "Button", <<"a">>, <<>>, TRUE),
   candidateNode(TRUE, Rect(0, 0, 0, 20), "a", "StaticText", <<"a">>, <<>>, TRUE),
   candidateNode(TRUE, Rect(0, 0, 100, 20), "a", "Button", <<"a">>, <<>>, TRUE),
   candidateNode(TRUE, Rect(0, 0, 100, 20), "", "Button", <<>>, <<>>, TRUE),
   candidateNode(TRUE, Rect(0, 30, 20, 20), "b", "StaticText", <<"b">>, <<>>, TRUE),
   candidateNode(TRUE, Rect(0, 30, 20, 20), "b", "Button", <<"b">>, <<>>, FALSE),
   candidateNode(TRUE, Rect(150, 0, 100, 20), "", "TextField", <<>>, <<"b">>, TRUE)}
RawTrees == SeqsUpTo(RawNodes, MaxNodes)
NormalizerOptions ==
  {frameOptions(order, minArea, includeRoles, excludeRoles, interactiveOnly) :
     order \in {"reading", "z", "stable"}, minArea \in {0, 500},
     includeRoles \in {{}, {<<"b", "u", "t", "t", "o", "n">>}},
     excludeRoles \in {{}, {<<"s", "t", "a", "t", "i", "c", "t", "e", "x", "t">>}},
     interactiveOnly \in BOOLEAN}

InitNormalize ==
  /\ pc = "normalize"
  /\ calls = <<>>
  /\ result = NoResult
  /\ \E nodes \in RawTrees, opts \in NormalizerOptions :
       pf = [nodes |-> nodes, opts |-> opts,
             out |-> [elements |-> <<>>, allCount |-> 0, interactiveCount |-> 0]]
  /\ fc = Idle /\ ti = Idle /\ fl = Idle /\ wt = Idle /\ st = Idle /\ cmd = Idle

Normalize ==
  /\ pc = "normalize"
  /\ \E out \in normalizeElements(pf.nodes, pf.opts) : pf' = [pf EXCEPT !.out = out]
  /\ pc' = "done"
  /\ UNCHANGED <<calls, result, fc, ti, fl, wt, st, cmd>>

SpecNormalize == InitNormalize /\ [][Normalize]_vars

\* Inputs of classifyVisibility
MaxExtent == 2         \* largest coordinate and side of a rect

VisibilityRects ==
  {Rect(x, y, w, h) : x \in -1..MaxExtent, y \in -1..MaxExtent,
                      w \in -1..MaxExtent, h \in -1..MaxExtent}
VisibilityScreens ==
  {Rect(x, y, w, h) : x \in 0..1, y \in 0..1,
                      w \in -1..MaxExtent, h \in -1..MaxExtent}

InitVisibility ==
  /\ pc = "classify"
  /\ calls = <<>>
  /\ result = NoResult
  /\ \E rect \in VisibilityRects, screen \in VisibilityScreens :
       pf = [rect |-> rect, screen |-> screen,
             out |-> [visible |-> FALSE, offscreen |-> FALSE]]
  /\ fc = Idle /\ ti = Idle /\ fl = Idle /\ wt = Idle /\ st = Idle /\ cmd = Idle

Classify ==
  /\ pc = "classify"
  /\ pf' = [pf EXCEPT !.out = classifyVisibility(pf.rect, pf.screen)]
  /\ pc' = "done"
  /\ UNCHANGED <<calls, result, fc, ti, fl, wt, st, cmd>>

SpecVisibility == InitVisibility /\ [][Classify]_vars

----------------------------------------------------------------------------
(* prepareTypedText and asciiOnly                                          *)

MaxTextLen == 3        \* longest text handed to prepareTypedText

\* the code points of the runes that are not letters, digits or punctuation
\* marks of ASCII, and of the first and last rune asciiOnly keeps; a rune
\* beyond ASCII is written by its code point and is one element of a text
CodePoints ==
  [r \in {"\t", "\n", "U+001F", " ", "~", "U+007F", "U+3042", "U+3044", "U+3046",
          "U+FF11", "U+FF12"} |->
     CASE r = "\t" -> 9
       [] r = "\n" -> 10
       [] r = "U+001F" -> 31
       [] r = " " -> 32
       [] r = "~" -> 126
       [] r = "U+007F" -> 127
       [] r = "U+3042" -> 12354
       [] r = "U+3044" -> 12356
       [] r = "U+3046" -> 12358
       [] r = "U+FF11" -> 65297
       [] r = "U+FF12" -> 65298]

\* asciiOnly that keeps the control characters below 0x20 as well
asciiOnlyUpTo126(s) ==
  SelectSeq(s, LAMBDA r : r \notin DOMAIN CodePoints \/ CodePoints[r] <= 126)

\* every rune without an entry in CodePoints lies in 33..125
asciiOnly(s) ==
  SelectSeq(s, LAMBDA r : r \notin DOMAIN CodePoints
                            \/ (CodePoints[r] >= 32 /\ CodePoints[r] <= 126))

Prepared(text, mode) == [ok |-> TRUE, text |-> text, mode |-> mode, code |-> ""]
NotPrepared(code) == [ok |-> FALSE, text |-> <<>>, mode |-> "", code |-> code]

prepareTypedText(text, asciiMode, pasteMode) ==
  LET trimmed == TrimSpace(text)
      out == IF asciiMode THEN asciiOnly(trimmed) ELSE trimmed
  IN IF asciiMode /\ TrimSpace(out) = <<>> THEN NotPrepared("TYPE_ASCII_EMPTY")
     ELSE Prepared(out, IF pasteMode /\ asciiMode THEN "paste-ascii"
                        ELSE IF pasteMode THEN "paste"
                        ELSE IF asciiMode THEN "ascii"
                        ELSE "type")

\* Inputs of prepareTypedText
PrepareRunes == {"a", " ", "~", "U+001F", "U+3042"}
PrepareTexts == SeqsUpTo(PrepareRunes, MaxTextLen)

InitPrepare ==
  /\ pc = "prepare"
  /\ calls = <<>>
  /\ result = NoResult
  /\ \E text \in PrepareTexts, asciiMode \in BOOLEAN, pasteMode \in BOOLEAN :
       pf = [text |-> text, asciiMode |-> asciiMode, pasteMode |-> pasteMode,
             out |-> NotPrepared("")]
  /\ fc = Idle /\ ti = Idle /\ fl = Idle /\ wt = Idle /\ st = Idle /\ cmd = Idle

Prepare ==
  /\ pc = "prepare"
  /\ pf' = [pf EXCEPT !.out = prepareTypedText(pf.text, pf.asciiMode, pf.pasteMode)]
  /\ pc' = "done"
  /\ UNCHANGED <<calls, result, fc, ti, fl, wt, st, cmd>>

SpecPrepare == InitPrepare /\ [][Prepare]_vars

----------------------------------------------------------------------------
(* The type action: the type case of cmdUI and the type step of            *)
(* executeFlowStep, with resolveElementForInput, clearFocusedInput and     *)
(* verifyTypeResult                                                        *)

defaultClearKeys == 72
DefaultFocusRetries == 2

KeySequenceCall(count) == [op |-> "key-sequence", arg |-> count]
KeyCall == [op |-> "key", arg |-> 42]

\* Frame.W*0.15 is exact on the model's widths, all multiples of 20
clearPointForElement(elem) ==
  IF ~isTextInputRole(elem.Role) THEN elem.Center
  ELSE IF elem.Frame.W <= 0 THEN elem.Center
  ELSE LET inset == Max2(8, Min2((elem.Frame.W * 15) \div 100, 24))
           x == elem.Frame.X + elem.Frame.W - inset
       IN IF x < elem.Frame.X + 6 THEN Point(elem.Center.X, elem.Center.Y)
          ELSE Point(x, elem.Center.Y)

estimateClearBackspaces(elem) ==
  LET runes == Len(TrimSpace(elem.Value))
  IN IF runes <= 0 THEN defaultClearKeys
     ELSE IF runes < 16 THEN 24
     ELSE IF runes < 40 THEN runes + 12
     ELSE Min2(runes + 16, 220)

normalizeTextForMatch(s) == ToLower(SelectSeq(TrimSpace(s), LAMBDA r : ~IsSpace(r)))

elementHasTypedText(elem, typedNorm) ==
  /\ typedNorm # <<>>
  /\ \/ Contains(normalizeTextForMatch(elem.Value), typedNorm)
     \/ Contains(normalizeTextForMatch(elem.Label), typedNorm)

\* verifyTypeResult on a snapshot that was fetched
verifyTypeResult(elements, typedText, hasFocused, focused) ==
  LET best == IF hasFocused THEN findBestVerificationTarget(elements, focused)
              ELSE [ok |-> FALSE, elem |-> NoElement]
      typedNorm == normalizeTextForMatch(typedText)
      others == {j \in DOMAIN elements : elementHasTypedText(elements[j], typedNorm)}
      Verified(elem) == Success([keys |-> {"elementId", "label", "value"},
                                 elementId |-> elem.ID, label |-> elem.Label,
                                 value |-> elem.Value])
  IN IF best.ok /\ elementHasTypedText(best.elem, typedNorm) THEN Verified(best.elem)
     ELSE IF /\ best.ok /\ isSecureTextInputRole(best.elem.Role)
             /\ TrimSpace(best.elem.Value) # <<>>
             /\ TrimSpace(best.elem.Value) # TrimSpace(focused.Value)
     THEN Verified(best.elem)
     ELSE IF others # {} THEN Verified(elements[SetMin(others)])
     ELSE Failure("TYPE_VERIFY_FAILED",
                  [keys |-> {"typed", "interactive"}, typed |-> typedText,
                   interactive |-> InteractiveCountOf(elements)])

\* the state focusElementWithRetry starts in
FocusStart(elem, retries) ==
  [elem |-> elem,
   retriesArg |-> retries,
   retries |-> IF retries <= 0 THEN 1 ELSE retries,
   attempt |-> 1,
   target |-> elem,
   focusPoint |-> focusPointForElement(elem),
   lastReason |-> "",
   lastErr |-> NoError,
   lastInteractive |-> -1,
   attempts |-> <<>>]

\* the state submitTextInput starts in
SubmitStart(text, hasFocused, focused) ==
  [text |-> text,
   hasFocused |-> hasFocused,
   focused |-> IF hasFocused THEN focused ELSE NoElement,
   hasTarget |-> hasFocused,
   target |-> IF hasFocused THEN focused ELSE NoElement,
   attempt |-> 1,
   lastObserved |-> <<>>,
   chunks |-> <<>>,
   chunkCount |-> 0,
   after |-> "",
   submitted |-> <<>>,
   injectorFailed |-> FALSE,
   rounds |-> <<>>,
   snapshotFailed |-> FALSE]

\* Inputs of the type action.  The texts with --ascii: one without runes,
\* two that asciiOnly empties, one that it shortens to TextShort
TextBlank == <<" ">>
TextWide == <<"U+3042">>
TextWideSpaced == <<"U+3042", " ", "U+3044">>
TextMixed == <<"a", "U+3042", "b">>

\* the selectors: none, a label, an index beyond the element set, and a
\* label with an index
NoSelector == [index |-> -1, id |-> "", label |-> <<>>, contains |-> <<>>]
LabelSelector == [index |-> -1, id |-> "", label |-> <<"A", "b">>, contains |-> <<>>]
IndexSelector == [index |-> MaxElems + 2, id |-> "", label |-> <<>>, contains |-> <<>>]
TwoSelectors == [index |-> 1, id |-> "", label |-> <<"A", "b">>, contains |-> <<>>]

\* --into (for a flow step, whether "into" is written at all), --replace,
\* --paste, --verify and, for the command line, --legacy-type-parsing and
\* --focus-retries; a flow step focuses with DefaultFocusRetries
TypeCmdFlag(entry, hasInto, into, replace, paste, verify, legacy, focusRetries) ==
  [entry |-> entry, hasInto |-> hasInto, into |-> into, replace |-> replace,
   paste |-> paste, verify |-> verify, legacy |-> legacy, focusRetries |-> focusRetries]
CliPlain == TypeCmdFlag("cli", FALSE, FALSE, FALSE, FALSE, TRUE, FALSE, DefaultFocusRetries)
CliReplace == TypeCmdFlag("cli", FALSE, FALSE, TRUE, FALSE, FALSE, FALSE, DefaultFocusRetries)
CliLegacyPaste == TypeCmdFlag("cli", FALSE, FALSE, FALSE, TRUE, FALSE, TRUE, DefaultFocusRetries)
CliNoRetries == TypeCmdFlag("cli", FALSE, FALSE, FALSE, FALSE, FALSE, FALSE, 0)
CliInto == TypeCmdFlag("cli", TRUE, TRUE, TRUE, TRUE, FALSE, FALSE, 1)
CliIntoLive == TypeCmdFlag("cli", TRUE, TRUE, FALSE, FALSE, FALSE, FALSE, 1)
FlowPlain == TypeCmdFlag("flow", FALSE, FALSE, FALSE, FALSE, FALSE, FALSE, DefaultFocusRetries)
FlowNotInto == TypeCmdFlag("flow", TRUE, FALSE, TRUE, FALSE, FALSE, FALSE, DefaultFocusRetries)
FlowInto == TypeCmdFlag("flow", TRUE, TRUE, FALSE, FALSE, FALSE, FALSE, DefaultFocusRetries)

\* the element sets the device and the last frame hold: a text field
\* labelled "Ab", and a button
TypeCmdElements ==
  {Element("a", "TextField", <<"A", "b">>, <<>>, FALSE, TRUE, TypeFrame["a"]),
   Element("b", "Button", <<"c">>, <<>>, FALSE, TRUE, TypeFrame["b"])}
TypeCmdSnapshots == {Indexed(elements) : elements \in SnapshotsOver(TypeCmdElements)}
NoLastFrame == NotLoaded("NO_LAST_FRAME")
LastFrame ==
  Loaded(Indexed(<<Element("a", "TextField", <<"A", "b">>, <<>>, FALSE, TRUE, TypeFrame["a"])>>), 2)

TypeCmd(f, text, s, load) ==
  [entry |-> f.entry, text |-> text, ascii |-> TRUE,
   index |-> s.index, id |-> s.id, label |-> s.label, contains |-> s.contains,
   hasInto |-> f.hasInto, into |-> f.into, replace |-> f.replace,
   paste |-> f.paste, verify |-> f.verify, legacy |-> f.legacy,
   focusRetries |-> f.focusRetries, load |-> load, stage |-> "args",
   prepared |-> <<>>, inputMode |-> "",
   hasFocused |-> FALSE, focused |-> NoElement, snapshotFailed |-> FALSE]

\* the invocations: every text with the flags that pass the checks, and
\* one invocation for each check that fails; a flow step that names a
\* field names it by an index the element set does not have
TypeCmds ==
  {TypeCmd(f, text, NoSelector, NoLastFrame) :
     f \in {CliPlain, FlowPlain},
     text \in {TextBlank, TextWide, TextWideSpaced, TextMixed}}
  \cup {TypeCmd(FlowNotInto, text, LabelSelector, NoLastFrame) :
     text \in {TextWide, TextMixed}}
  \cup {TypeCmd(FlowPlain, text, IndexSelector, LastFrame) :
     text \in {TextWideSpaced, TextMixed}}
  \cup {TypeCmd(CliInto, text, LabelSelector, LastFrame) :
     text \in {TextBlank, TextWide, TextMixed}}
  \cup {TypeCmd(f, TextMixed, IndexSelector, load) :
     f \in {CliInto, FlowInto}, load \in {NoLastFrame, LastFrame}}
  \cup {TypeCmd(f, TextWide, TwoSelectors, LastFrame) :
     f \in {CliInto, FlowInto, FlowPlain}}
  \cup {TypeCmd(FlowPlain, TextMixed, TwoSelectors, LastFrame)}
  \cup {TypeCmd(f, TextWide, NoSelector, LastFrame) :
     f \in {CliInto, FlowInto, CliReplace, CliLegacyPaste, CliNoRetries}}
  \cup {TypeCmd(CliPlain, TextWide, LabelSelector, LastFrame)}
  \cup {TypeCmd(CliIntoLive, TextMixed, LabelSelector, NoLastFrame)}

InitTypeCmd ==
  /\ pc = "typecmd_args"
  /\ calls = <<>>
  /\ result = NoResult
  /\ cmd \in TypeCmds
  /\ fc = Idle /\ ti = Idle /\ fl = Idle /\ wt = Idle /\ st = Idle /\ pf = Idle

\* the handler up to resolveElementForInput: the checks of the flags and
\* prepareTypedText
TypeCmdArgs ==
  /\ pc = "typecmd_args"
  /\ LET text == TrimSpace(cmd.text)
         selectorCount == countElementSelectors(cmd.index, cmd.id, TrimSpace(cmd.label),
                                                TrimSpace(cmd.contains))
         into == IF cmd.entry = "cli" THEN cmd.into
                 ELSE (cmd.hasInto /\ cmd.into) \/ (~cmd.hasInto /\ selectorCount = 1)
         prep == prepareTypedText(text, cmd.ascii, cmd.paste)
         Fail(code) == /\ result' = Failure(code, [keys |-> {}])
                       /\ pc' = "done"
                       /\ cmd' = [cmd EXCEPT !.stage = "end"]
                       /\ ti' = ti
     IN IF cmd.entry = "cli" /\ cmd.focusRetries <= 0 THEN Fail("USAGE")
        ELSE IF text = <<>> THEN Fail("USAGE")
        ELSE IF cmd.entry = "cli" /\ cmd.replace /\ ~cmd.into THEN Fail("USAGE")
        ELSE IF cmd.entry = "cli" /\ cmd.paste /\ cmd.legacy THEN Fail("USAGE")
        ELSE IF into /\ selectorCount # 1 THEN Fail("USAGE")
        ELSE IF cmd.entry = "cli" /\ ~into /\ selectorCount > 0 THEN Fail("USAGE")
        ELSE IF ~prep.ok THEN Fail(prep.code)
        ELSE IF into
        THEN /\ cmd' = [cmd EXCEPT !.into = TRUE, !.prepared = prep.text,
                                   !.inputMode = prep.mode, !.stage = "resolve"]
             /\ pc' = "typecmd_resolve"
             /\ UNCHANGED <<result, ti>>
        ELSE /\ cmd' = [cmd EXCEPT !.into = FALSE, !.prepared = prep.text,
                                   !.inputMode = prep.mode, !.stage = "submit"]
             /\ ti' = SubmitStart(prep.text, FALSE, NoElement)
             /\ pc' = "type_start"
             /\ UNCHANGED result
  /\ UNCHANGED <<calls, fc, fl, wt, st, pf>>

\* resolveElementForInput: the cached element set is searched first; when
\* it has no such element a snapshot is taken and searched, then the two
\* fallbacks are asked; a failed snapshot leaves the first error
TypeCmdResolve ==
  /\ pc = "typecmd_resolve"
  /\ LET label == TrimSpace(cmd.label)
         contains == TrimSpace(cmd.contains)
         mustLoad == cmd.index >= 0 \/ TrimSpace(Runes[cmd.id]) # <<>>
         cached == IF cmd.load.ok THEN cmd.load.elements ELSE <<>>
         first == pickElementBySelectors(cached, cmd.index, cmd.id, label, contains)
         Fail(code) == /\ result' = Failure(code, [keys |-> {}])
                       /\ pc' = "done"
                       /\ cmd' = [cmd EXCEPT !.stage = "end"]
                       /\ fc' = fc
         FailSnapshot(code) ==
                       /\ result' = Failure(code, [keys |-> {}])
                       /\ pc' = "done"
                       /\ cmd' = [cmd EXCEPT !.stage = "end", !.snapshotFailed = TRUE]
                       /\ fc' = fc
         Focus(elem) == /\ fc' = FocusStart(elem, cmd.focusRetries)
                        /\ pc' = "focus_tap"
                        /\ cmd' = [cmd EXCEPT !.stage = "focus"]
                        /\ UNCHANGED result
     IN IF mustLoad /\ ~cmd.load.ok THEN Fail(cmd.load.code) /\ calls' = calls
        ELSE IF first.ok THEN Focus(first.elem) /\ calls' = calls
        ELSE /\ calls' = Append(calls, DescribeCall)
             /\ \/ /\ \E cause \in TransportCodes : TRUE
                   /\ FailSnapshot(first.code)
                \/ \E elements \in TypeCmdSnapshots :
                     LET live == pickElementBySelectors(elements, cmd.index, cmd.id,
                                                        label, contains)
                         intent == pickIntentFallbackElement(elements, label, contains)
                         system == pickSystemFallbackElement(elements, label, contains)
                     IN IF live.ok THEN Focus(live.elem)
                        ELSE IF intent.ok THEN Focus(intent.elem)
                        ELSE IF system.ok THEN Focus(system.elem)
                        ELSE Fail(live.code)
  /\ UNCHANGED <<ti, fl, wt, st, pf>>

\* the step after the focus that types although the clear tap failed
TypeCmdFocusedIgnoresClearTap ==
  /\ pc = "done"
  /\ cmd # Idle
  /\ cmd.stage = "focus"
  /\ LET focusedElem == result.details
         clearPoint == clearPointForElement(focusedElem)
         count == estimateClearBackspaces(focusedElem)
         Fail(code) == /\ result' = Failure(code, [keys |-> {}])
                       /\ pc' = "done"
                       /\ cmd' = [cmd EXCEPT !.stage = "end"]
                       /\ ti' = ti
         Submit == /\ result' = NoResult
                   /\ pc' = "type_start"
                   /\ cmd' = [cmd EXCEPT !.stage = "submit", !.hasFocused = TRUE,
                                         !.focused = focusedElem]
                   /\ ti' = SubmitStart(cmd.prepared, TRUE, focusedElem)
     IN IF ~result.ok
        THEN /\ cmd' = [cmd EXCEPT !.stage = "end"]
             /\ UNCHANGED <<pc, calls, result, ti>>
        ELSE IF ~cmd.replace THEN Submit /\ calls' = calls
        ELSE \/ /\ calls' = Append(calls, TapCall(clearPoint))
                /\ \E cause \in TransportCodes : TRUE
                /\ Submit
             \/ /\ calls' = calls \o <<TapCall(clearPoint), KeySequenceCall(count)>>
                /\ Submit
             \/ \E keys \in {1, count} :
                  /\ calls' = calls \o <<TapCall(clearPoint), KeySequenceCall(count)>>
                                    \o [k \in 1..keys |-> KeyCall]
                  /\ \E cause \in TransportCodes : TRUE
                  /\ Fail("IDB_UI_FAILED")
             \/ /\ calls' = calls \o <<TapCall(clearPoint), KeySequenceCall(count)>>
                                  \o [k \in 1..count |-> KeyCall]
                /\ Submit
  /\ fc' = Idle
  /\ UNCHANGED <<fl, wt, st, pf>>

\* focusElementWithRetry has returned: its error ends the action; with
\* --replace the field is tapped at its clear point and emptied by one
\* key sequence or, when that fails, by single backspaces; then
\* submitTextInput starts
TypeCmdFocused ==
  /\ pc = "done"
  /\ cmd # Idle
  /\ cmd.stage = "focus"
  /\ LET focusedElem == result.details
         clearPoint == clearPointForElement(focusedElem)
         count == estimateClearBackspaces(focusedElem)
         Fail(code) == /\ result' = Failure(code, [keys |-> {}])
                       /\ pc' = "done"
                       /\ cmd' = [cmd EXCEPT !.stage = "end"]
                       /\ ti' = ti
         Submit == /\ result' = NoResult
                   /\ pc' = "type_start"
                   /\ cmd' = [cmd EXCEPT !.stage = "submit", !.hasFocused = TRUE,
                                         !.focused = focusedElem]
                   /\ ti' = SubmitStart(cmd.prepared, TRUE, focusedElem)
     IN IF ~result.ok
        THEN /\ cmd' = [cmd EXCEPT !.stage = "end"]
             /\ UNCHANGED <<pc, calls, result, ti>>
        ELSE IF ~cmd.replace THEN Submit /\ calls' = calls
        ELSE \/ /\ calls' = Append(calls, TapCall(clearPoint))
                /\ \E cause \in TransportCodes : TRUE
                /\ Fail("IDB_UI_FAILED")
             \/ /\ calls' = calls \o <<TapCall(clearPoint), KeySequenceCall(count)>>
                /\ Submit
             \/ \E keys \in {1, count} :
                  /\ calls' = calls \o <<TapCall(clearPoint), KeySequenceCall(count)>>
                                    \o [k \in 1..keys |-> KeyCall]
                  /\ \E cause \in TransportCodes : TRUE
                  /\ Fail("IDB_UI_FAILED")
             \/ /\ calls' = calls \o <<TapCall(clearPoint), KeySequenceCall(count)>>
                                  \o [k \in 1..count |-> KeyCall]
                /\ Submit
  /\ fc' = Idle
  /\ UNCHANGED <<fl, wt, st, pf>>

\* submitTextInput has returned: its error ends the action; with --verify
\* verifyTypeResult looks for the text in a fresh snapshot
TypeCmdSubmitted ==
  /\ pc = "done"
  /\ cmd # Idle
  /\ cmd.stage = "submit"
  /\ LET resp == [keys |-> {"action", "text", "inputMode"}, action |-> "type",
                  text |-> cmd.prepared, inputMode |-> cmd.inputMode]
     IN IF ~result.ok
        THEN UNCHANGED <<calls, result>>
        ELSE IF ~cmd.verify
        THEN /\ result' = Success(resp)
             /\ calls' = calls
        ELSE /\ calls' = Append(calls, DescribeCall)
             /\ \/ \E cause \in TransportCodes :
                     result' = Failure("IDB_UI_FAILED", SnapshotError(cause).details)
                \/ \E elements \in TypeSnapshots(cmd.prepared) :
                     LET verify == verifyTypeResult(elements, cmd.prepared,
                                                    cmd.hasFocused, cmd.focused)
                     IN result' = IF verify.ok
                                  THEN Success([resp EXCEPT !.keys = @ \cup {"verify"}])
                                  ELSE verify
  /\ cmd' = [cmd EXCEPT !.stage = "end"]
  /\ ti' = Idle
  /\ UNCHANGED <<pc, fc, fl, wt, st, pf>>

NextTypeCmd ==
  \/ TypeCmdArgs \/ TypeCmdResolve \/ NextFocus \/ TypeCmdFocused
  \/ NextType \/ TypeCmdSubmitted

SpecTypeCmd == InitTypeCmd /\ [][NextTypeCmd]_vars

\* the type action, and prepareTypedText on its own
NextTypeAction == NextTypeCmd \/ Prepare

SpecTypeAction == (InitTypeCmd \/ InitPrepare) /\ [][NextTypeAction]_vars

----------------------------------------------------------------------------
(* Selector resolution of an action: the tap case of cmdUI,                *)
(* resolveElementForInput (type, clear and the flow steps) and the swipe   *)
(* case of cmdUI                                                           *)

\* one selector each: an index and an id that an element set can have, an
\* index and an id that none has, and label and contains queries
ResolveSelectors ==
  {[index |-> i, id |-> "", label |-> <<>>, contains |-> <<>>] : i \in {1, MaxElems + 2}}
  \cup {[index |-> -1, id |-> id, label |-> <<>>, contains |-> <<>>] : id \in {"a", "c"}}
  \cup {[index |-> -1, id |-> "", label |-> l, contains |-> <<>>] :
          l \in {<<"A", "b">>, <<"z">>, <<"b", "a", "c", "k">>}}
  \cup {[index |-> -1, id |-> "", label |-> <<>>, contains |-> <<"z">>]}

\* a button in the top band, a text and a navigation bar
ResolveElements ==
  {Element("a", "Button", <<"A", "b">>, <<>>, FALSE, TRUE, Rect(0, 0, 100, 20)),
   Element("b", "StaticText", <<"c">>, <<>>, FALSE, TRUE, Rect(0, 300, 100, 20)),
   Element("axpath:/0", "NavigationBar", <<"c">>, <<>>, FALSE, TRUE, Rect(0, 40, 200, 40))}
ResolveSnapshots == {Indexed(elements) : elements \in SnapshotsOver(ResolveElements)}

\* what loadElementsAndTransform finds: no last frame, or the element set
\* an earlier `simagent frame` wrote
ResolveLoads == {NotLoaded("NO_LAST_FRAME")} \cup {Loaded(e, 2) : e \in ResolveSnapshots}

\* consulted lists what was searched or asked, in order; by names where
\* the element returned came from
ResolveCmd(entry, from, s, load) ==
  [entry |-> entry, from |-> from,
   index |-> s.index, id |-> s.id, label |-> s.label, contains |-> s.contains,
   load |-> load, pickErr |-> "", snapshot |-> NotFetched,
   snapshotFailed |-> FALSE, consulted |-> <<>>]

Resolved(elem, by) ==
  Success([keys |-> {"elem", "by"}, elem |-> elem, by |-> by])

InitResolve ==
  /\ pc = "resolve_cached"
  /\ calls = <<>>
  /\ result = NoResult
  /\ \E entry \in {"tap", "input", "swipe"}, from \in BOOLEAN,
        s \in ResolveSelectors, load \in ResolveLoads :
       /\ entry = "swipe" => s.label = <<>> /\ s.contains = <<>>
       /\ cmd = ResolveCmd(entry, from, s, load)
  /\ fc = Idle /\ ti = Idle /\ fl = Idle /\ wt = Idle /\ st = Idle /\ pf = Idle

\* a resolution that goes to the device without looking at the cached set
ResolveCachedSkipsCache ==
  /\ pc = "resolve_cached"
  /\ UNCHANGED result
  /\ pc' = "resolve_live"
  /\ cmd' = [cmd EXCEPT !.pickErr = "ELEMENT_NOT_FOUND"]
  /\ UNCHANGED <<calls, fc, ti, fl, wt, st, pf>>

\* the lookup in the cached element set
ResolveCached ==
  /\ pc = "resolve_cached"
  /\ LET mustLoad == \/ cmd.entry = "swipe" \/ cmd.from
                     \/ cmd.index >= 0 \/ TrimSpace(Runes[cmd.id]) # <<>>
         elements == IF cmd.load.ok THEN cmd.load.elements ELSE <<>>
         first == IF cmd.entry = "swipe"
                  THEN pickElement(elements, cmd.index, cmd.id)
                  ELSE pickElementBySelectors(elements, cmd.index, cmd.id,
                                              TrimSpace(cmd.label), TrimSpace(cmd.contains))
         searched == [cmd EXCEPT !.consulted = IF cmd.load.ok THEN <<"cached">> ELSE <<>>,
                                 !.pickErr = first.code]
     IN IF mustLoad /\ ~cmd.load.ok
        THEN /\ result' = Failure(cmd.load.code, [keys |-> {}])
             /\ pc' = "done"
             /\ cmd' = cmd
        ELSE IF first.ok
        THEN /\ result' = Resolved(first.elem, "cached")
             /\ pc' = "done"
             /\ cmd' = searched
        ELSE IF cmd.entry = "swipe"
        THEN /\ result' = Failure(first.code, [keys |-> {}])
             /\ pc' = "done"
             /\ cmd' = searched
        ELSE /\ UNCHANGED result
             /\ pc' = "resolve_live"
             /\ cmd' = searched
  /\ UNCHANGED <<calls, fc, ti, fl, wt, st, pf>>

\* a resolution that asks the system fallback before the intent fallback
ResolveLiveSystemFirst ==
  /\ pc = "resolve_live"
  /\ calls' = Append(calls, DescribeCall)
  /\ \/ /\ \E cause \in TransportCodes : TRUE
        /\ result' = Failure(cmd.pickErr, [keys |-> {}])
        /\ cmd' = [cmd EXCEPT !.snapshotFailed = TRUE]
     \/ \E elements \in ResolveSnapshots :
          LET label == TrimSpace(cmd.label)
              contains == TrimSpace(cmd.contains)
              asks == cmd.entry = "input" \/ label # <<>> \/ contains # <<>>
              live == pickElementBySelectors(elements, cmd.index, cmd.id, label, contains)
              intent == pickIntentFallbackElement(elements, label, contains)
              system == pickSystemFallbackElement(elements, label, contains)
              seen == [cmd EXCEPT !.snapshot = Fetched(elements)]
          IN IF live.ok
             THEN /\ result' = Resolved(live.elem, "live")
                  /\ cmd' = [seen EXCEPT !.consulted = @ \o <<"live">>]
             ELSE IF ~asks
             THEN /\ result' = Failure(live.code, [keys |-> {}])
                  /\ cmd' = [seen EXCEPT !.consulted = @ \o <<"live">>]
             ELSE IF system.ok
             THEN /\ result' = Resolved(system.elem, "system")
                  /\ cmd' = [seen EXCEPT !.consulted = @ \o <<"live", "system">>]
             ELSE IF intent.ok
             THEN /\ result' = Resolved(intent.elem, "intent")
                  /\ cmd' = [seen EXCEPT !.consulted = @ \o <<"live", "system", "intent">>]
             ELSE /\ result' = Failure(live.code, [keys |-> {}])
                  /\ cmd' = [seen EXCEPT !.consulted = @ \o <<"live", "intent", "system">>]
  /\ pc' = "done"
  /\ UNCHANGED <<fc, ti, fl, wt, st, pf>>

\* the cached set had no such element: a snapshot is taken and searched,
\* then the intent fallback and the system fallback are asked; the tap
\* case asks them for label and contains queries only; a failed snapshot
\* leaves the first error
ResolveLive ==
  /\ pc = "resolve_live"
  /\ calls' = Append(calls, DescribeCall)
  /\ \/ /\ \E cause \in TransportCodes : TRUE
        /\ result' = Failure(cmd.pickErr, [keys |-> {}])
        /\ cmd' = [cmd EXCEPT !.snapshotFailed = TRUE]
     \/ \E elements \in ResolveSnapshots :
          LET label == TrimSpace(cmd.label)
              contains == TrimSpace(cmd.contains)
              asks == cmd.entry = "input" \/ label # <<>> \/ contains # <<>>
              live == pickElementBySelectors(elements, cmd.index, cmd.id, label, contains)
              intent == pickIntentFallbackElement(elements, label, contains)
              system == pickSystemFallbackElement(elements, label, contains)
              seen == [cmd EXCEPT !.snapshot = Fetched(elements)]
          IN IF live.ok
             THEN /\ result' = Resolved(live.elem, "live")
                  /\ cmd' = [seen EXCEPT !.consulted = @ \o <<"live">>]
             ELSE IF ~asks
             THEN /\ result' = Failure(live.code, [keys |-> {}])
                  /\ cmd' = [seen EXCEPT !.consulted = @ \o <<"live">>]
             ELSE IF intent.ok
             THEN /\ result' = Resolved(intent.elem, "intent")
                  /\ cmd' = [seen EXCEPT !.consulted = @ \o <<"live", "intent">>]
             ELSE IF system.ok
             THEN /\ result' = Resolved(system.elem, "system")
                  /\ cmd' = [seen EXCEPT !.consulted = @ \o <<"live", "intent", "system">>]
             ELSE /\ result' = Failure(live.code, [keys |-> {}])
                  /\ cmd' = [seen EXCEPT !.consulted = @ \o <<"live", "intent", "system">>]
  /\ pc' = "done"
  /\ UNCHANGED <<fc, ti, fl, wt, st, pf>>

NextResolve == ResolveCached \/ ResolveLive

SpecResolve == InitResolve /\ [][NextResolve]_vars

----------------------------------------------------------------------------
(* Transport failure re-coding: runCommand, wrapAppErrCode and the places  *)
(* that re-code a failed injector call as IDB_UI_FAILED                    *)

\* the message each place gives to wrapAppErrCode
SiteMessage ==
  [tap |-> "tap failed",
   focus_tap |-> "focus tap failed",
   replace_tap |-> "focus tap failed before replace",
   clear_tap |-> "focus tap failed before clear",
   swipe |-> "swipe failed",
   button |-> "button failed",
   key |-> "clear text failed",
   text |-> "text input failed",
   describe_all |-> "failed to capture ui tree"]

RecodeSites == DOMAIN SiteMessage

\* the four errors runCommand returns
RunErrors ==
  {runCommandError(code) : code \in TransportCodes \cup {"COMMAND_NOT_RUN"}}

\* the errors handed to wrapAppErrCode: those of runCommand, and errors
\* that went through a re-coding before
RecodeErrors ==
  RunErrors
  \cup {wrapAppErrCode(err, "IDB_UI_FAILED", SiteMessage.describe_all) : err \in RunErrors}
  \cup {wrapAppErrCode(err, "SIMCTL_FAILED", "failed to capture screenshot") : err \in RunErrors}

InitRecode ==
  /\ pc = "recode"
  /\ calls = <<>>
  /\ result = NoResult
  /\ \E site \in RecodeSites, err \in RecodeErrors :
       pf = [site |-> site, err |-> err, out |-> NoError]
  /\ fc = Idle /\ ti = Idle /\ fl = Idle /\ wt = Idle /\ st = Idle /\ cmd = Idle

Recode ==
  /\ pc = "recode"
  /\ pf' = [pf EXCEPT !.out = wrapAppErrCode(pf.err, "IDB_UI_FAILED", SiteMessage[pf.site])]
  /\ pc' = "done"
  /\ UNCHANGED <<calls, result, fc, ti, fl, wt, st, cmd>>

SpecRecode == InitRecode /\ [][Recode]_vars

----------------------------------------------------------------------------
(* The four retry loops side by side: focusElementWithRetry,               *)
(* submitTextInput, captureStableUISamples and waitForCondition, each      *)
(* started from its own initial states                                     *)

InitLoops == InitFocus \/ InitType \/ InitStable \/ InitWait

NextLoops == NextFocus \/ NextType \/ NextStable \/ NextWait

\* every external call returns, so a loop that can take a step takes it
SpecLoops == InitLoops /\ [][NextLoops]_vars /\ WF_vars(NextLoops)

----------------------------------------------------------------------------
(* NearbyLabel inference on its own: addNearbyLabels as normalizeElements  *)
(* calls it, on elements already ordered and numbered                      *)

MaxNearby == 3         \* longest element sequence annotated

\* elements without a label (none, or a blank one) at (10,10), and labelled
\* ones at the same place but hidden, 100pt away, 220pt away and 222pt away
NearbyFrames == {Rect(0, 0, 20, 20), Rect(100, 0, 20, 20), Rect(220, 0, 20, 20),
                 Rect(222, 0, 20, 20)}
NearbyElements ==
  {Element("u", "TextField", label, <<>>, FALSE, TRUE, Rect(0, 0, 20, 20)) :
     label \in {<<>>, <<" ">>}}
  \cup {Element("h", "StaticText", <<"d">>, <<>>, FALSE, FALSE, Rect(0, 0, 20, 20)),
        Element("n", "StaticText", <<"a">>, <<>>, FALSE, TRUE, Rect(100, 0, 20, 20)),
        Element("e", "StaticText", <<"b", " ">>, <<>>, FALSE, TRUE, Rect(220, 0, 20, 20)),
        Element("f", "StaticText", <<"c">>, <<>>, FALSE, TRUE, Rect(222, 0, 20, 20))}

InitNearby ==
  /\ pc = "nearby"
  /\ calls = <<>>
  /\ result = NoResult
  /\ \E elements \in SeqsUpTo(NearbyElements, MaxNearby) :
       pf = [elements |-> Indexed(elements), out |-> <<>>]
  /\ fc = Idle /\ ti = Idle /\ fl = Idle /\ wt = Idle /\ st = Idle /\ cmd = Idle

\* allCandidates = addNearbyLabels(allCandidates)
Nearby ==
  /\ pc = "nearby"
  /\ pf' = [pf EXCEPT !.out = addNearbyLabels(pf.elements)]
  /\ pc' = "done"
  /\ UNCHANGED <<calls, result, fc, ti, fl, wt, st, cmd>>

SpecNearby == InitNearby /\ [][Nearby]_vars

----------------------------------------------------------------------------
(* Properties of the Focus Controller (SpecFocus) *)

\* the policy of the focus controller, read off one attempt: the snapshot
\* shows focus, but on no element that matches the re-located target
FocusOnOtherElement(a) ==
  /\ a.tapOK /\ a.snapOK /\ a.hasFocused
  /\ ~a.focusedSameID
  /\ ~(~a.targetHasID /\ a.focusedNear)

FocusMatchesTarget(a) ==
  a.located /\ (a.focusedSameID \/ (~a.targetHasID /\ a.focusedNear))

AllAttemptsOnOtherElement ==
  /\ fc.attempts # <<>>
  /\ \A i \in DOMAIN fc.attempts : FocusOnOtherElement(fc.attempts[i])

\* C1: with retries >= 1, when every attempt's tap succeeds and every
\* post-tap snapshot shows focus on an element that does not match the
\* target, the call has sent exactly `retries` taps and returns
\* TYPE_FOCUS_FAILED whose details.attempts is the configured retry count.
C1_WrongFocusExhaustsRetries ==
  (pc = "done" /\ fc.retriesArg >= 1 /\ AllAttemptsOnOtherElement) =>
    /\ ~result.ok
    /\ result.code = "TYPE_FOCUS_FAILED"
    /\ "attempts" \in result.details.keys
    /\ result.details.attempts = fc.retriesArg
    /\ Len(CallsOf("tap")) = fc.retriesArg
    /\ Len(fc.attempts) = fc.retriesArg

C1_Witness ==
  /\ pc = "done"
  /\ fc.retriesArg = 2
  /\ AllAttemptsOnOtherElement
  /\ result.code = "TYPE_FOCUS_FAILED"
  /\ Len(CallsOf("tap")) = 2

C8_NoFocusIsTrusted ==
  \A i \in DOMAIN fc.attempts :
    (fc.attempts[i].snapOK /\ fc.attempts[i].located /\ ~fc.attempts[i].hasFocused) =>
      /\ fc.attempts[i].trusted
      /\ i = Len(fc.attempts)
      /\ pc = "done"
      /\ result.ok
      /\ Len(CallsOf("tap")) = i

C8_Witness ==
  /\ pc = "done"
  /\ result.ok
  /\ Len(fc.attempts) = 1
  /\ fc.retries = 2
  /\ fc.attempts[1].located /\ ~fc.attempts[1].hasFocused

----------------------------------------------------------------------------
(* Properties of the Text Reconciliation Engine (SpecType) *)

Strip(s) == SelectSeq(s, LAMBDA r : ~IsSpace(r))
IsPrefix(a, b) == Len(a) <= Len(b) /\ SubSeq(b, 1, Len(a)) = a
IsProperPrefix(a, b) == IsPrefix(a, b) /\ Len(a) < Len(b)

RECURSIVE Flatten(_)
Flatten(chunks) == IF chunks = <<>> THEN <<>> ELSE Head(chunks) \o Flatten(Tail(chunks))

\* the suffix of the original text that starts at its first rune not yet observed
MissingAfter(text, observed) ==
  LET k == CHOOSE k \in 1..Len(text) :
             /\ ~IsSpace(text[k])
             /\ Strip(observed) \o Strip(SubSeq(text, k, Len(text))) = Strip(text)
  IN SubSeq(text, k, Len(text))

VerifyRoundsStarted == Len(SelectSeq(calls, LAMBDA c : c = SleepCall(90)))

HelloExam == <<"h", "e", "l", "l", "o", "@", "e", "x", "a", "m">>
PleCom == <<"p", "l", "e", ".", "c", "o", "m">>

\* C2: typing "hello@example.com" into a field that shows "hello@exam" in
\* the first verification round: the text handed to the injector next is
\* "ple.com", chunk by chunk, nothing else is sent, and when the second
\* round shows the full text the call returns success.
C2_ResubmitsMissingSuffix ==
  (ti.text = TextHello /\ Len(ti.rounds) >= 1 /\ ti.rounds[1].observed = HelloExam) =>
    /\ Len(ti.submitted) >= 2
    /\ Flatten(ti.submitted[1]) = TextHello
    /\ IsPrefix(Flatten(ti.submitted[2]), PleCom)
    /\ (Len(ti.rounds) = 1 /\ pc = "type_chunks")
          => Flatten(ti.submitted[2]) \o Flatten(ti.chunks) = PleCom
    /\ Len(ti.rounds) >= 2 => Flatten(ti.submitted[2]) = PleCom
    /\ (Len(ti.rounds) >= 2 /\ ti.rounds[2].observed = TextHello) =>
          /\ pc = "done" /\ result.ok
          /\ Len(ti.rounds) = 2 /\ Len(ti.submitted) = 2
          /\ Flatten([i \in 1..Len(CallsOf("text")) |-> CallsOf("text")[i].arg])
               = TextHello \o PleCom

C2_Witness ==
  /\ ti.text = TextHello
  /\ pc = "done" /\ result.ok
  /\ Len(ti.rounds) = 2
  /\ ti.rounds[1].observed = HelloExam
  /\ ti.rounds[2].observed = TextHello
  /\ ti.submitted[2] = <<<<"p", "l", "e", ".">>, <<"c", "o", "m">>>>

\* C9: a verification round whose observed value, white space removed, is
\* not a prefix of the intended text, white space removed, ends the call
\* with TYPE_INCOMPLETE in that round; no text is sent after it.
C9_MismatchIsFinal ==
  \A i \in DOMAIN ti.rounds :
    ~IsPrefix(Strip(ti.rounds[i].observed), Strip(ti.text)) =>
      /\ i = Len(ti.rounds)
      /\ pc = "done"
      /\ ~result.ok /\ result.code = "TYPE_INCOMPLETE"
      /\ result.details.observed = ti.rounds[i].observed
      /\ Len(ti.submitted) = i
      /\ ti.chunks = <<>>

C9_Witness ==
  /\ pc = "done"
  /\ result.code = "TYPE_INCOMPLETE"
  /\ ti.text = TextSpaced
  /\ Len(ti.rounds) = 2
  /\ IsProperPrefix(Strip(ti.rounds[1].observed), Strip(ti.text))
  /\ ~IsPrefix(Strip(ti.rounds[2].observed), Strip(ti.text))
  /\ Len(ti.submitted) = 2

AllRoundsProperPrefix ==
  /\ Len(ti.rounds) = MaxVerifyRounds
  /\ \A i \in DOMAIN ti.rounds : IsProperPrefix(Strip(ti.rounds[i].observed), Strip(ti.text))

IncompleteAfterRounds ==
  /\ ~result.ok /\ result.code = "TYPE_INCOMPLETE"
  /\ result.details.keys = {"intended", "observed", "missing"}
  /\ result.details.intended = ti.text
  /\ result.details.observed = ti.rounds[MaxVerifyRounds].observed
  /\ result.details.missing = MissingAfter(ti.text, ti.rounds[MaxVerifyRounds].observed)

SecureRole(role) == role = "SecureTextField"

\* submitTextInput was handed a secure field as its focus target
SecureFocusPassed ==
  ti.hasFocused /\ SecureRole(ti.focused.Role) /\ TrimSpace(ti.text) # <<>>

\* the text went to the injector once and no snapshot was asked for
SubmittedOnceUnverified ==
  /\ Len(ti.submitted) = 1
  /\ CallsOf("describe-all") = <<>>
  /\ ti.rounds = <<>>

\* a step in which the target is re-located as a secure field
RelocatedSecure == ti'.target # ti.target /\ SecureRole(ti'.target.Role)

\* C11 as stated: with a secure focus target the text is submitted in
\* chunks once, no snapshot is taken, nothing is resubmitted and the call
\* returns success; a round that re-locates the target as a secure field
\* returns success in that step.
C11_SecureSkipsVerification ==
  /\ [](SecureFocusPassed => CallsOf("describe-all") = <<>> /\ Len(ti.submitted) <= 1)
  /\ []((pc = "done" /\ SecureFocusPassed) =>
          /\ result.ok
          /\ SubmittedOnceUnverified
          /\ Flatten(ti.submitted[1]) = ti.text)
  /\ [][RelocatedSecure => pc' = "done" /\ result'.ok /\ ti'.submitted = ti.submitted]_vars

\* C11, amended: the same when the injector accepts every chunk; a chunk
\* it rejects ends the call with IDB_UI_FAILED, still without a snapshot
\* or a resubmission.
C11_SecureSkipsVerificationUnlessInjectorFails ==
  /\ [](SecureFocusPassed => CallsOf("describe-all") = <<>> /\ Len(ti.submitted) <= 1)
  /\ []((pc = "done" /\ SecureFocusPassed) =>
          /\ SubmittedOnceUnverified
          /\ IF ti.injectorFailed
             THEN ~result.ok /\ result.code = "IDB_UI_FAILED"
             ELSE result.ok /\ Flatten(ti.submitted[1]) = ti.text)
  /\ [][RelocatedSecure => pc' = "done" /\ result'.ok /\ ti'.submitted = ti.submitted]_vars

\* a secure target typed in more than one chunk, and returned as success
C11_Witness ==
  /\ pc = "done" /\ SecureFocusPassed /\ result.ok
  /\ ti.text = TextHello
  /\ Len(ti.submitted[1]) = 5
  /\ Len(CallsOf("text")) = 5

----------------------------------------------------------------------------
(* Properties of the Flow Runner (SpecFlow) *)

\* the sequence a, a+1, ..., b (empty when b < a)
Range(a, b) == [j \in 1..(b - a + 1) |-> a + j - 1]

FlowFailed == pc = "done" /\ result.code = "FLOW_STEP_FAILED"

\* C3: when step i is the first to fail in a run started at step k, the
\* steps handed to executeFlowStep are exactly k..i in order, all before i
\* returned without error, the result is FLOW_STEP_FAILED with
\* details.step = details.resumeFrom = i and details.error the error that
\* step i returned, and this invocation executes nothing after i.
C3_HaltsOnFirstFailure ==
  /\ [](FlowFailed =>
          LET i == result.details.step
          IN /\ fl.resumeFrom <= i /\ i <= Len(fl.steps)
             /\ fl.executed = Range(fl.resumeFrom, i)
             /\ \A j \in 1..(Len(fl.outcomes) - 1) : fl.outcomes[j] = "ok"
             /\ fl.outcomes[Len(fl.outcomes)] # "ok"
             /\ result.details.resumeFrom = i
             /\ result.details.error = fl.outcomes[Len(fl.outcomes)])
  /\ [][FlowFailed =>
          (fl'.invocation = fl.invocation => fl'.executed = fl.executed)]_vars

C3_Witness ==
  /\ FlowFailed
  /\ fl.invocation = 1 /\ fl.resumeFrom = 1 /\ Len(fl.steps) = 3
  /\ result.details.step = 2
  /\ fl.executed = <<1, 2>>
  /\ result.details.error = "TYPE_INCOMPLETE"

\* C4: a run with --resume-from k on a readable flow of N steps hands to
\* executeFlowStep the steps k, k+1, ... in order, never one below k, and
\* all of k..N when it completes; k < 1 or k > N ends in USAGE with no step
\* executed; a run resumed from a reported resumeFrom executes the step
\* that failed first.
C4_ResumeRunsFromK ==
  LET k == fl.resumeFrom
      N == Len(fl.steps)
  IN /\ fl.executed = Range(k, k + Len(fl.executed) - 1)
     /\ (pc = "done" /\ result.ok) =>
          /\ fl.executed = Range(k, N)
          /\ result.details.steps = Range(k, N)
     /\ (k < 1 \/ k > N) =>
          /\ fl.executed = <<>>
          /\ pc = "done" /\ fl.fileOK => result.code = "USAGE"
          /\ pc # "flow_loop"
     /\ (fl.invocation > 1 /\ fl.executed # <<>>) =>
          fl.executed[1] = fl.previous.details.step

C4_Witness ==
  /\ pc = "done" /\ result.ok
  /\ fl.invocation = 2 /\ fl.previous.details.step = 2
  /\ Len(fl.steps) = 3
  /\ fl.executed = <<2, 3>>

\* the last step handed to executeFlowStep returned an error
LastStepFailed ==
  fl.outcomes # <<>> /\ fl.outcomes[Len(fl.outcomes)] # "ok"

\* what captureFailureArtifacts can report: the directory alone with the
\* error of its creation, or the directory with the screenshot and the raw
\* tree that could be written
ArtifactReports ==
  {{"outDir", "error"}} \cup
  {{"outDir"} \cup files : files \in SUBSET {"screenshot", "uiRaw"}}

\* C23: when a flow step fails the run ends at once in FLOW_STEP_FAILED
\* carrying the error of the step and its index as resumeFrom, whatever
\* the capture of the artifacts reports (directory not created, screenshot
\* or raw tree missing or present); the artifacts appear only in
\* details.artifacts, and the invocation executes no further step.
C23_CaptureNeverMasksStepError ==
  /\ [](LastStepFailed =>
          LET i == fl.executed[Len(fl.executed)]
          IN /\ pc = "done"
             /\ result.details.artifacts \in ArtifactReports
             /\ ~result.ok /\ result.code = "FLOW_STEP_FAILED"
             /\ result.details.error = fl.outcomes[Len(fl.outcomes)]
             /\ result.details.resumeFrom = i
             /\ result.details.step = i)
  /\ [][LastStepFailed =>
          (fl'.invocation = fl.invocation => fl'.executed = fl.executed)]_vars

\* the output directory could not be created for a failed second step
C23_Witness ==
  /\ LastStepFailed /\ pc = "done"
  /\ result.details.artifacts = {"outDir", "error"}
  /\ result.details.error = "WAIT_TIMEOUT"
  /\ fl.executed = <<1, 2>> /\ Len(fl.steps) = 3

----------------------------------------------------------------------------
(* Properties of the Condition Waiter (SpecWaitLive) *)

\* the lower-cased text of an element: label, value, nearby label and role
LowerText(e) ==
  ToLower(e.Label \o <<" ">> \o e.Value \o <<" ">> \o e.NearbyLabel
            \o <<" ">> \o Runes[e.Role])

\* the wait condition on the elements of a fetched snapshot
WaitCondition(elements) ==
  /\ \/ wt.interactiveMin < 0
     \/ InteractiveCountOf(elements) >= wt.interactiveMin
  /\ \/ wt.hasText = <<>>
     \/ \E j \in 1..Len(elements) :
          elements[j].Enabled /\ Contains(LowerText(elements[j]), ToLower(wt.hasText))

\* the poll just made fetched a snapshot that satisfies the condition
WaitSatisfied == wt.snapshot.ok /\ WaitCondition(wt.snapshot.elements)

\* C5: the wait succeeds exactly at the first poll that fetched a snapshot
\* satisfying the condition; a failed fetch counts as unsatisfied and the
\* wait goes on; a wait that ends without a satisfying poll ends in
\* WAIT_TIMEOUT with the elapsed time at or past the timeout; the wait goes
\* round again only while the time is short of the timeout; every wait
\* makes at least one poll and ends.
C5_WaitPollsUntilSatisfiedOrTimeout ==
  /\ [](pc = "done" =>
          /\ wt.attempts >= 1
          /\ Len(CallsOf("describe-all")) = wt.attempts
          /\ result.details.attempts = wt.attempts
          /\ result.ok <=> WaitSatisfied
          /\ ~result.ok => result.code = "WAIT_TIMEOUT" /\ wt.elapsed >= wt.timeout)
  /\ [][pc' = "wait_poll" =>
          /\ ~WaitSatisfied'
          /\ wt'.attempts > wt.attempts => wt'.elapsed - wt.interval < wt.timeout]_vars
  /\ <>(pc = "done")

C5_Witness ==
  /\ pc = "done" /\ result.ok
  /\ wt.failedPolls >= 1 /\ wt.attempts = 3
  /\ wt.hasText = <<"a", " ", "b">> /\ wt.interactiveMin = 2

\* C20: between any two consecutive polls of waitForCondition there is
\* exactly one sleep, of the configured interval, and that interval is
\* strictly positive, whether the waiter was entered from `ui wait` or
\* from a flow wait step.
C20_OneFullSleepBetweenPolls ==
  \A i \in 1..(Len(calls) - 1) :
     /\ calls[i].op = "describe-all" =>
          calls[i + 1] = SleepCall(wt.interval) /\ wt.interval > 0
     /\ calls[i].op = "sleep" => calls[i + 1].op = "describe-all"

WaitTimedOut == pc = "done" /\ ~result.ok /\ result.code = "WAIT_TIMEOUT"

\* C21 as stated: a wait that times out after at least one of its polls
\* failed with a snapshot error reports the most recent such error as
\* lastError, with the attempt count and the last observed interactive
\* count.
C21_TimeoutCarriesMostRecentError ==
  WaitTimedOut /\ wt.failedPolls >= 1 =>
    /\ "lastError" \in result.details.keys
    /\ result.details.lastError = wt.lastFailure
    /\ result.details.attempts = wt.attempts
    /\ result.details.interactive = wt.lastInteractive

\* C21: a wait that times out reports lastError exactly when its final
\* poll failed with a snapshot error, and then the error of that poll; a
\* later poll that fetched a snapshot discards the error of an earlier
\* one.  The details always carry the attempt count and the interactive
\* count of the last snapshot fetched (0 when none was).
C21_TimeoutCarriesErrorOfFinalPoll ==
  WaitTimedOut =>
    /\ "lastError" \in result.details.keys <=> ~wt.snapshot.ok
    /\ ~wt.snapshot.ok =>
         /\ wt.failedPolls >= 1
         /\ result.details.lastError = wt.lastFailure
         /\ result.details.lastError.code = "IDB_UI_FAILED"
    /\ {"attempts", "interactive"} \subseteq result.details.keys
    /\ result.details.attempts = wt.attempts
    /\ result.details.interactive = wt.lastInteractive

C21_Witness ==
  /\ WaitTimedOut
  /\ wt.attempts = 3 /\ wt.failedPolls = 2 /\ ~wt.snapshot.ok
  /\ wt.lastInteractive = 1
  /\ result.details.lastError = SnapshotError("TIMEOUT")

----------------------------------------------------------------------------
(* Properties of the Stability Sampler (SpecStable) *)

AllSamplesTaken == pc = "done" /\ Len(st.hashes) = st.StableSamples

\* C6: once all N >= 2 samples are taken, the sampler returns the N
\* samples if and only if the N hashes are all equal, and otherwise
\* FRAME_UNSTABLE carrying the N hashes, N and the interval; and on every
\* prefix of the hash list allStringsEqual is true exactly when each value
\* equals the first.
C6_StableIffAllHashesEqual ==
  /\ AllSamplesTaken =>
       /\ st.StableSamples >= 2
       /\ result.ok <=> \A j, k \in 1..Len(st.hashes) : st.hashes[j] = st.hashes[k]
       /\ result.ok =>
            /\ Len(result.details.samples) = st.StableSamples
            /\ \A j \in 1..st.StableSamples :
                 result.details.samples[j].Hash = st.hashes[j]
       /\ ~result.ok =>
            /\ result.code = "FRAME_UNSTABLE"
            /\ result.details.hashes = st.hashes
            /\ Len(result.details.hashes) = st.StableSamples
            /\ result.details.samples = st.StableSamples
            /\ result.details.interval = st.StableInterval
  /\ (pc = "done" /\ result.code = "FRAME_UNSTABLE") => AllSamplesTaken
  /\ \A n \in 0..Len(st.hashes) :
       LET values == SubSeq(st.hashes, 1, n)
       IN allStringsEqual(values) <=> \A j \in 1..n : values[j] = values[1]

\* three samples of which only the last differs
C6_Witness ==
  /\ AllSamplesTaken
  /\ result.code = "FRAME_UNSTABLE"
  /\ st.StableSamples = 3
  /\ st.hashes[1] = st.hashes[2] /\ st.hashes[3] # st.hashes[1]
  /\ st.samples[1].Elements # st.samples[2].Elements

----------------------------------------------------------------------------
(* Properties of the Selector Resolver (SpecSelectors) *)

\* the selectors that are set among index, id, label and contains
SelectorsSet(index, id, label, contains) ==
  (IF index >= 0 THEN {"index"} ELSE {})
  \cup (IF id \notin {"", " "} THEN {"id"} ELSE {})
  \cup (IF Strip(label) # <<>> THEN {"label"} ELSE {})
  \cup (IF Strip(contains) # <<>> THEN {"contains"} ELSE {})

\* C12: pickElementBySelectors returns USAGE when more than one selector
\* or none is set and looks an element up only when exactly one is set;
\* `ui tap` with more than one selector flag ends in USAGE without a
\* snapshot or a tap.
C12_OneSelectorOnly ==
  /\ (pf # Idle /\ pc = "done") =>
       LET n == Cardinality(SelectorsSet(pf.index, pf.id, pf.label, pf.contains))
       IN /\ n # 1 => ~pf.out.ok /\ pf.out.code = "USAGE"
          /\ n = 1 => pf.out.ok \/ pf.out.code = "ELEMENT_NOT_FOUND"
          /\ pf.out.ok => \E j \in 1..Len(pf.elements) : pf.out.elem = pf.elements[j]
  /\ (cmd # Idle
      /\ Cardinality(SelectorsSet(cmd.index, cmd.id, cmd.label, cmd.contains)) > 1) =>
       /\ calls = <<>>
       /\ pc \in {"tap_args", "done"}
       /\ pc = "done" => ~result.ok /\ result.code = "USAGE"

\* `ui tap --label Ab --contains b` over a frame that shows the element
C12_Witness ==
  /\ cmd # Idle /\ pc = "done"
  /\ cmd.unit = "pt" /\ cmd.index = -1 /\ cmd.id = ""
  /\ cmd.label = <<"A", "b">> /\ cmd.contains = <<"b">>
  /\ cmd.load.ok /\ Len(cmd.load.elements) = 2
  /\ result.code = "USAGE"

----------------------------------------------------------------------------
(* Properties of typedMissingSuffix (SpecSuffix) and of                    *)
(* splitIntoInputChunks (SpecChunks)                                       *)

\* C13: typedMissingSuffix is not comparable exactly when the stripped
\* observation is not a prefix of the stripped intended text; it returns
\* an empty suffix exactly when the two are equal; otherwise it returns
\* the suffix of the unstripped intended text from the first rune not yet
\* observed, which completes the observation.  The four cases of
\* main_test.go come out as written there.
C13_MissingSuffixOfOriginalText ==
  /\ pc = "done" =>
       LET t == Strip(pf.intended)
           o == Strip(pf.observed)
           s == pf.out.missing
       IN /\ ~pf.out.comparable <=> ~IsPrefix(o, t)
          /\ (pf.out.comparable /\ s = <<>>) <=> o = t
          /\ IsProperPrefix(o, t) =>
               \E k \in 1..Len(pf.intended) :
                  /\ s = SubSeq(pf.intended, k, Len(pf.intended))
                  /\ ~IsSpace(pf.intended[k])
                  /\ Len(Strip(SubSeq(pf.intended, 1, k - 1))) = Len(o)
                  /\ o \o Strip(s) = t
  /\ typedMissingSuffix(Phone, PhoneShort) = [missing |-> <<"0", "0">>, comparable |-> TRUE]
  /\ typedMissingSuffix(Phone, PhoneSpaced) = [missing |-> <<"0", "0">>, comparable |-> TRUE]
  /\ typedMissingSuffix(Phone, Phone) = [missing |-> <<>>, comparable |-> TRUE]
  /\ ~typedMissingSuffix(Phone, PhoneOther).comparable

\* an intended text with white space inside, observed with other white space
C13_Witness ==
  /\ pc = "done"
  /\ pf.intended = <<"0", " ", "-">> /\ pf.observed = <<" ", "0">>
  /\ pf.out = [missing |-> <<"-">>, comparable |-> TRUE]

\* C14: for n > 0 the chunks of a non-empty text concatenate to the text,
\* all but the last have n runes, the last has 1..n, and there are
\* ceil(len/n) of them; an empty text has no chunks; n <= 0 gives the text
\* as one chunk; ("090-0000-0000", 4) gives "090-", "0000", "-000", "0".
C14_ChunksPartitionText ==
  /\ pc = "done" =>
       LET n == pf.chunkRunes
           len == Len(pf.text)
           out == pf.out
       IN /\ len = 0 => out = <<>>
          /\ (len > 0 /\ n <= 0) => out = <<pf.text>>
          /\ (len > 0 /\ n > 0) =>
               /\ Flatten(out) = pf.text
               /\ Len(out) = (len + n - 1) \div n
               /\ \A k \in 1..(Len(out) - 1) : Len(out[k]) = n
               /\ Len(out[Len(out)]) \in 1..n
  /\ splitIntoInputChunks(Phone, 4)
       = <<<<"0", "9", "0", "-">>, <<"0", "0", "0", "0">>, <<"-", "0", "0", "0">>, <<"0">>>>

\* five runes in chunks of two: a short last chunk
C14_Witness ==
  /\ pc = "done"
  /\ pf.chunkRunes = 2 /\ Len(pf.text) = 5
  /\ Len(pf.out) = 3 /\ Len(pf.out[3]) = 1

----------------------------------------------------------------------------
(* Properties of the Normalizer (SpecNormalize) *)

\* C15: for every raw tree and every combination of the options, the
\* element at position i of the sequence normalizeElements returns has
\* Index i (counting positions from 1), so the Index values are exactly
\* 1..N with no gap and no duplicate.
C15_IndexesAreDense ==
  pc = "done" =>
    LET elements == pf.out.elements
    IN /\ \A i \in 1..Len(elements) : elements[i].Index = i
       /\ {elements[i].Index : i \in 1..Len(elements)} = 1..Len(elements)

\* a node is filtered out and the sort puts a later node first
C15_Witness ==
  /\ pc = "done"
  /\ Len(pf.nodes) = 3 /\ Len(pf.out.elements) = 2
  /\ pf.opts.Order = "reading" /\ pf.opts.InteractiveOnly
  /\ pf.out.elements[1].order > pf.out.elements[2].order
  /\ pf.out.elements[2].Index = 2

----------------------------------------------------------------------------
(* Properties of classifyVisibility (SpecVisibility) *)

\* the two rects share a region of positive area
Overlaps(rect, screen) ==
  /\ rect.X < screen.X + screen.W /\ screen.X < rect.X + rect.W
  /\ rect.Y < screen.Y + screen.H /\ screen.Y < rect.Y + rect.H

\* no part of rect lies outside screen
Inside(rect, screen) ==
  /\ screen.X <= rect.X /\ rect.X + rect.W <= screen.X + screen.W
  /\ screen.Y <= rect.Y /\ rect.Y + rect.H <= screen.Y + screen.H

\* C16: classifyVisibility gives (visible, offscreen) = (false, true) for a
\* rect of zero or negative width or height and for a rect that shares no
\* region of positive area with the screen, (true, false) for a rect fully
\* inside the screen, (true, true) for a rect that shares such a region but
\* extends beyond the screen, and (true, false) for every rect of positive
\* area when the screen's width or height is <= 0.  The three cases of
\* main_test.go come out as written there.
C16_VisibilityClasses ==
  /\ pc = "done" =>
       LET rect == pf.rect
           screen == pf.screen
           hidden == [visible |-> FALSE, offscreen |-> TRUE]
           shown == [visible |-> TRUE, offscreen |-> FALSE]
           partly == [visible |-> TRUE, offscreen |-> TRUE]
       IN IF rect.W <= 0 \/ rect.H <= 0 THEN pf.out = hidden
          ELSE IF screen.W <= 0 \/ screen.H <= 0 THEN pf.out = shown
          ELSE IF ~Overlaps(rect, screen) THEN pf.out = hidden
          ELSE IF Inside(rect, screen) THEN pf.out = shown
          ELSE pf.out = partly
  /\ classifyVisibility(Rect(10, 10, 20, 20), Rect(0, 0, 100, 100))
       = [visible |-> TRUE, offscreen |-> FALSE]
  /\ classifyVisibility(Rect(-5, 10, 20, 20), Rect(0, 0, 100, 100))
       = [visible |-> TRUE, offscreen |-> TRUE]
  /\ classifyVisibility(Rect(120, 10, 20, 20), Rect(0, 0, 100, 100))
       = [visible |-> FALSE, offscreen |-> TRUE]

\* a rect that straddles the left edge of the screen
C16_Witness ==
  /\ pc = "done"
  /\ pf.screen = Rect(0, 0, 2, 2) /\ pf.rect = Rect(-1, 0, 2, 1)
  /\ pf.out = [visible |-> TRUE, offscreen |-> TRUE]

----------------------------------------------------------------------------
(* Properties of pickElementByText (SpecPickText) *)

\* the elements of a snapshot
ElementsOf(elements) == {elements[i] : i \in DOMAIN elements}

\* the query as pickElementByText compares it
LabelQuery == ToLower(TrimSpace(pf.label))
ContainsQuery == ToLower(TrimSpace(pf.contains))

\* the element has an exact hit for the label query
ExactHits(elem) ==
  {f \in {"Label", "Value", "NearbyLabel"} : ToLower(TrimSpace(elem[f])) = LabelQuery}

\* the element's label, value, nearby label and role text contains the query
SubstringHit(elem) ==
  Contains(ToLower(TrimSpace(elem.Label) \o <<" ">> \o TrimSpace(elem.Value) \o <<" ">>
                   \o TrimSpace(elem.NearbyLabel) \o <<" ">> \o TrimSpace(Runes[elem.Role])),
           ContainsQuery)

\* the element is enabled and matches the query
Matches(elem) ==
  /\ elem.Enabled
  /\ LabelQuery # <<>> => ExactHits(elem) # {}
  /\ ContainsQuery # <<>> => SubstringHit(elem)

\* the total score of a matching element
TotalScore(elem) ==
  (IF LabelQuery # <<>> /\ "Label" \in ExactHits(elem) THEN 90 ELSE 0)
  + (IF LabelQuery # <<>> /\ "Value" \in ExactHits(elem) THEN 75 ELSE 0)
  + (IF LabelQuery # <<>> /\ "NearbyLabel" \in ExactHits(elem) THEN 55 ELSE 0)
  + (IF ContainsQuery # <<>> /\ SubstringHit(elem) THEN 45 ELSE 0)
  + (IF elem.Visible THEN 24 ELSE 0)
  + (IF ~elem.Offscreen THEN 10 ELSE 0)
  + (IF isInteractiveRole(elem.Role) THEN 15 ELSE 0)
  + (IF TrimSpace(elem.Label) # <<>> THEN 8 ELSE 0)

\* the element returned has the highest total score of the candidates and,
\* of those with that score, the smallest Index
HighestScoreSmallestIndex ==
  (pc = "done" /\ pf.out.ok) =>
    /\ pf.out.elem \in ElementsOf(pf.elements)
    /\ Matches(pf.out.elem)
    /\ \A i \in DOMAIN pf.elements :
         Matches(pf.elements[i]) =>
           \/ TotalScore(pf.out.elem) > TotalScore(pf.elements[i])
           \/ /\ TotalScore(pf.out.elem) = TotalScore(pf.elements[i])
              /\ pf.out.elem.Index <= pf.elements[i].Index

\* the hand-made elements of TestPickElementByTextPrefersVisibleInteractive
TestNextElements ==
  Indexed(<<[Element("hidden", "Button", <<"N", "e", "x", "t">>, <<>>, FALSE, FALSE, Rect(0, 0, 0, 0))
               EXCEPT !.Center = Point(0, 0)],
            [Element("visible", "Button", <<"N", "e", "x", "t">>, <<>>, FALSE, TRUE, Rect(0, 0, 0, 0))
               EXCEPT !.Center = Point(0, 0)]>>)

\* C17 as stated: the element returned has the highest total score, ties
\* going to the smallest Index, and of two enabled elements with the same
\* label and role, one visible and one hidden, the hidden one is never the
\* element returned.
C17_VisibleBeatsHiddenSameLabelAndRole ==
  /\ HighestScoreSmallestIndex
  /\ (pc = "done" /\ pf.out.ok) =>
       \A i, j \in DOMAIN pf.elements :
          (/\ pf.elements[i].Enabled /\ pf.elements[j].Enabled
           /\ pf.elements[i].Label = pf.elements[j].Label
           /\ pf.elements[i].Role = pf.elements[j].Role
           /\ pf.elements[i].Visible /\ ~pf.elements[j].Visible)
          => pf.out.elem # pf.elements[j]

\* C17: the element returned has the highest total score (exact label +90,
\* exact value +75, exact nearby label +55, substring +45, visible +24, not
\* offscreen +10, interactive role +15, non-empty label +8), ties going to
\* the smallest Index; of two enabled elements with the same label, value,
\* nearby label and role, one visible and one hidden, the hidden one is
\* never the element returned, whatever their order.  The case of
\* main_test.go comes out as written there.
C17_VisibleBeatsHiddenSameTextAndRole ==
  /\ HighestScoreSmallestIndex
  /\ (pc = "done" /\ pf.out.ok) =>
       \A i, j \in DOMAIN pf.elements :
          (/\ pf.elements[i].Enabled /\ pf.elements[j].Enabled
           /\ pf.elements[i].Label = pf.elements[j].Label
           /\ pf.elements[i].Value = pf.elements[j].Value
           /\ pf.elements[i].NearbyLabel = pf.elements[j].NearbyLabel
           /\ pf.elements[i].Role = pf.elements[j].Role
           /\ pf.elements[i].Visible /\ ~pf.elements[j].Visible)
          => pf.out.elem # pf.elements[j]
  /\ pickElementByText(TestNextElements, <<"n", "e", "x", "t">>, <<>>)
       = Picked(TestNextElements[2])

\* the hidden element comes first and the visible one is returned; the
\* third element ties with the second and has the higher Index
C17_Witness ==
  /\ pc = "done" /\ pf.out.ok
  /\ Len(pf.elements) = 3
  /\ pf.elements[1] = [Index |-> 1] @@ TextElement("Button", <<"A", "b">>, <<>>, <<>>, TRUE, OffScreen)
  /\ pf.elements[2] = [Index |-> 2] @@ TextElement("Button", <<"A", "b">>, <<>>, <<>>, TRUE, OnScreen)
  /\ pf.elements[3].Label = <<"A", "b">> /\ pf.elements[3].Visible
  /\ TotalScore(pf.elements[3]) = TotalScore(pf.elements[2])
  /\ pf.label = <<"a", "B">>
  /\ pf.out.elem = pf.elements[2]

\* C18: every element pickElementByText returns is enabled and, for a label
\* query, has its label, value or nearby label equal to the query (trimmed,
\* without regard to case) or, for a contains query, has the query as a
\* substring of its label, value, nearby label and role text; when no
\* element of the set is such, the result is ELEMENT_NOT_FOUND and no
\* element is returned.
C18_ReturnedElementMatches ==
  pc = "done" =>
    /\ pf.out.ok =>
         /\ pf.out.elem \in ElementsOf(pf.elements)
         /\ pf.out.elem.Enabled
         /\ pf.label # <<>> => ExactHits(pf.out.elem) # {}
         /\ pf.contains # <<>> => SubstringHit(pf.out.elem)
    /\ (\A i \in DOMAIN pf.elements : ~Matches(pf.elements[i])) =>
         pf.out = [ok |-> FALSE, elem |-> NoElement, code |-> "ELEMENT_NOT_FOUND"]
    /\ ~pf.out.ok => pf.out.code = "ELEMENT_NOT_FOUND"

\* a contains query that only the role of the enabled element matches,
\* beside a disabled element whose label matches
C18_Witness ==
  /\ pc = "done" /\ pf.out.ok
  /\ pf.contains = <<"B">>
  /\ pf.out.elem.Label = <<"c">> /\ pf.out.elem.Role = "Button"
  /\ \E i \in DOMAIN pf.elements :
       ~pf.elements[i].Enabled /\ pf.elements[i].Label = <<"A", "b">>

----------------------------------------------------------------------------
(* Properties of the type action and prepareTypedText (SpecTypeAction) *)

\* the rune is one of 0x20..0x7E
InASCIIRange(r) == r \notin DOMAIN CodePoints \/ CodePoints[r] \in 32..126

\* out is text without its runes outside 0x20..0x7E, the others in order
IsASCIIFiltered(out, text) ==
  /\ \A i \in DOMAIN out : InASCIIRange(out[i])
  /\ \E f \in [DOMAIN out -> DOMAIN text] :
       /\ \A i, j \in DOMAIN out : i < j => f[i] < f[j]
       /\ \A i \in DOMAIN out : text[f[i]] = out[i]
       /\ \A k \in DOMAIN text : InASCIIRange(text[k]) => \E i \in DOMAIN out : f[i] = k

\* the calls that act on the device: taps, keys and injected text
InputCalls == SelectSeq(calls, LAMBDA c : c.op \in {"tap", "key", "key-sequence", "text"})

\* C19: prepareTypedText(text, ascii = true) returns the trimmed text
\* without the runes outside 0x20..0x7E, the others in their order, or
\* TYPE_ASCII_EMPTY when nothing or only white space is left; the type
\* action of the command line and of a flow step, given such a text, ends
\* with an error and has issued no tap, no key and no text injector call,
\* and when the error is TYPE_ASCII_EMPTY no call at all.  The two cases
\* of main_test.go come out as written there.
C19_AsciiEmptyIssuesNoInput ==
  /\ (pc = "done" /\ pf # Idle /\ pf.asciiMode) =>
       LET trimmed == TrimSpace(pf.text)
       IN IF \A k \in DOMAIN trimmed : ~InASCIIRange(trimmed[k]) \/ IsSpace(trimmed[k])
          THEN pf.out = NotPrepared("TYPE_ASCII_EMPTY")
          ELSE /\ pf.out.ok
               /\ pf.out.mode = IF pf.pasteMode THEN "paste-ascii" ELSE "ascii"
               /\ IsASCIIFiltered(pf.out.text, trimmed)
  /\ (cmd # Idle /\ ~prepareTypedText(cmd.text, cmd.ascii, cmd.paste).ok) =>
       /\ InputCalls = <<>>
       /\ pc = "done" => ~result.ok /\ result.code \in {"USAGE", "TYPE_ASCII_EMPTY"}
  /\ (cmd # Idle /\ result.code = "TYPE_ASCII_EMPTY") =>
       /\ calls = <<>>
       /\ ~prepareTypedText(cmd.text, cmd.ascii, cmd.paste).ok
  /\ prepareTypedText(<<"U+FF11", "U+FF12", "3", "-", "a", "b", "c">>, TRUE, FALSE)
       = Prepared(<<"3", "-", "a", "b", "c">>, "ascii")
  /\ ~prepareTypedText(<<"U+3042", "U+3044", "U+3046">>, TRUE, FALSE).ok

\* a flow step that names a field and whose text --ascii leaves as one
\* space: it ends before the field is looked up
C19_Witness ==
  /\ pc = "done"
  /\ cmd # Idle
  /\ cmd.entry = "flow" /\ cmd.text = TextWideSpaced /\ cmd.index > 0
  /\ asciiOnly(cmd.text) = <<" ">>
  /\ result = Failure("TYPE_ASCII_EMPTY", [keys |-> {}])
  /\ calls = <<>>

----------------------------------------------------------------------------
(* Properties of the retry loops (SpecLoops) *)

SettleCalls(ms) == SelectSeq(calls, LAMBDA c : c = SleepCall(ms))

\* where the loop stands between two external calls
LoopStage ==
  [focus_tap |-> 0, focus_snap |-> 1,
   type_start |-> 0, type_chunks |-> 1, type_target |-> 1, type_verify |-> 2,
   stable_sample |-> 0, wait_poll |-> 0, done |-> 3]

\* a measure every step of a loop increases: the external calls made so
\* far, then the stage reached since the last one
LoopProgress == 4 * Len(calls) + LoopStage[pc]

\* the most external calls a run can make: a tap, a settle and a snapshot
\* per focus attempt; a text call and a pause per chunk of each submission
\* and a settle and a snapshot per round, with one snapshot to find the
\* target; a snapshot and a sleep per sample and per poll
LoopCallBound ==
  IF fc # Idle THEN 3 * fc.retries
  ELSE IF ti # Idle
  THEN 2 * Len(ti.text) * (MaxVerifyRounds + 1) + 2 * MaxVerifyRounds + 1
  ELSE IF st # Idle THEN 2 * st.StableSamples
  ELSE 2 * Max2(1, wt.timeout)

LoopProgressBound == 4 * LoopCallBound + 3

\* C22: every retry loop is bounded and ends when every external call
\* returns: focusElementWithRetry issues at most `retries` taps and at most
\* `retries` snapshots (one tap when retries is below 1); submitTextInput
\* makes at most 4 verification rounds and at most 5 chunked submissions;
\* captureStableUISamples takes at most N samples; waitForCondition goes
\* round again only when the time read after the poll is short of the
\* timeout, which bounds its polls as each takes time.  A loop that has not
\* returned can always take a step, and every step increases a measure
\* that is bounded for the run, so every run returns.
C22_LoopsBoundedAndTerminate ==
  /\ [](fc # Idle =>
          /\ Len(CallsOf("tap")) <= fc.retries
          /\ Len(CallsOf("describe-all")) <= fc.retries
          /\ fc.retriesArg >= 1 => fc.retries = fc.retriesArg)
  /\ [](ti # Idle =>
          /\ Len(SettleCalls(90)) <= MaxVerifyRounds
          /\ Len(ti.rounds) <= MaxVerifyRounds
          /\ Len(ti.submitted) <= MaxVerifyRounds + 1)
  /\ [](st # Idle =>
          /\ Len(CallsOf("describe-all")) <= st.StableSamples
          /\ Len(st.samples) <= st.StableSamples)
  /\ [](wt # Idle =>
          /\ pc = "wait_poll" /\ wt.attempts >= 1 =>
                wt.elapsed - wt.interval < wt.timeout
          /\ Len(CallsOf("describe-all")) <= Max2(1, wt.timeout))
  /\ [](LoopProgress <= LoopProgressBound)
  /\ [][LoopProgress' > LoopProgress]_vars
  /\ [](pc # "done" => ENABLED NextLoops)

\* a text submission that used all four rounds and five submissions
C22_Witness ==
  /\ pc = "done" /\ ti # Idle
  /\ Len(SettleCalls(90)) = MaxVerifyRounds
  /\ Len(ti.submitted) = MaxVerifyRounds + 1

\* a focus acquisition that used all its taps and snapshots
C22_FocusWitness ==
  /\ pc = "done" /\ fc # Idle /\ fc.retries = MaxRetries
  /\ Len(CallsOf("tap")) = fc.retries
  /\ Len(CallsOf("describe-all")) = fc.retries

\* a wait that polled as often as its timeout allows
C22_WaitWitness ==
  /\ pc = "done" /\ wt # Idle /\ wt.timeout = MaxWaitTicks
  /\ Len(CallsOf("describe-all")) = MaxWaitTicks

----------------------------------------------------------------------------
(* Properties of the transport failure re-coding (SpecRecode) *)

C24_UnchangedWitness ==
  /\ pc = "done"
  /\ pf.err.code = "IDB_UI_FAILED" /\ pf.out = pf.err
  /\ pf.out.message # SiteMessage[pf.site]

----------------------------------------------------------------------------
(* Properties of the selector resolution (SpecResolve) *)

ByIndexOrID == cmd.index >= 0 \/ Runes[cmd.id] # <<>>

\* no element of the set has the index, or the id, asked for
NoSuchElement(elements) ==
  ~\E i \in DOMAIN elements :
      IF cmd.index >= 0 THEN elements[i].Index = cmd.index
      ELSE elements[i].ID = cmd.id

\* C25: an index or id selector that matches no element of the cached
\* element set and none of the snapshot taken afterwards (the swipe case
\* of cmdUI takes none) resolves to ELEMENT_NOT_FOUND, and an index or id
\* query never gets an element from the intent or the system fallback.
C25_IndexOrIDMissIsNotFound ==
  (pc = "done" /\ ByIndexOrID) =>
    /\ (/\ cmd.load.ok /\ NoSuchElement(cmd.load.elements)
        /\ \/ cmd.entry = "swipe"
           \/ cmd.snapshot.ok /\ NoSuchElement(cmd.snapshot.elements))
         => ~result.ok /\ result.code = "ELEMENT_NOT_FOUND"
    /\ result.ok => result.details.by \in {"cached", "live"}
    /\ result.ok =>
         IF cmd.index >= 0 THEN result.details.elem.Index = cmd.index
         ELSE result.details.elem.ID = cmd.id

\* an id that neither the last frame nor the screen has, asked of
\* resolveElementForInput while a button is on screen
C25_Witness ==
  /\ pc = "done" /\ cmd.entry = "input" /\ cmd.id = "c"
  /\ cmd.load.ok /\ Len(cmd.load.elements) = MaxElems
  /\ cmd.snapshot.ok /\ Len(cmd.snapshot.elements) = MaxElems
  /\ \E i \in DOMAIN cmd.snapshot.elements : cmd.snapshot.elements[i].Role = "Button"
  /\ cmd.consulted = <<"cached", "live", "intent", "system">>
  /\ result.code = "ELEMENT_NOT_FOUND"

ElementsOfSeq(elements) == {elements[i] : i \in DOMAIN elements}

\* the cached element set has an element for the selector
CachedHit ==
  /\ cmd.load.ok
  /\ pickElementBySelectors(cmd.load.elements, cmd.index, cmd.id,
                            TrimSpace(cmd.label), TrimSpace(cmd.contains)).ok

\* C26 as stated: the element an action acts upon is chosen from a
\* snapshot taken during that action, never from an element set an earlier
\* invocation produced.
C26_ResolvedFromFreshSnapshot ==
  (pc = "done" /\ result.ok) =>
    /\ cmd.snapshot.ok
    /\ result.details.by # "cached"
    /\ result.details.elem \in ElementsOfSeq(cmd.snapshot.elements)

\* C26: an action searches the cached element set first (the file of
\* --from, or the set the last `simagent frame` wrote) and acts upon the
\* element found there without a snapshot; only when the cached set has no
\* such element, or none can be loaded for a label or contains query, is
\* one snapshot taken and the element chosen from it; the swipe case of
\* cmdUI never takes a snapshot.
C26_CachedSetFirstThenSnapshot ==
  /\ (pc = "done" /\ result.ok) =>
       IF CachedHit
       THEN /\ result.details.by = "cached"
            /\ result.details.elem \in ElementsOfSeq(cmd.load.elements)
            /\ calls = <<>> /\ ~cmd.snapshot.ok
       ELSE /\ result.details.by \in {"live", "intent", "system"}
            /\ calls = <<DescribeCall>> /\ cmd.snapshot.ok
            /\ result.details.elem \in ElementsOfSeq(cmd.snapshot.elements)
  /\ cmd.entry = "swipe" => calls = <<>>
  /\ Len(calls) <= 1

\* the last frame has the text "c" at index 1 while the screen shows the
\* button "Ab" at index 1: index 1 resolves to the text
C26_Witness ==
  /\ pc = "done" /\ result.ok /\ cmd.entry = "input" /\ cmd.index = 1
  /\ result.details.by = "cached"
  /\ result.details.elem.Role = "StaticText"
  /\ calls = <<>>

\* the lookups on the snapshot of this action
LiveHit ==
  pickElementBySelectors(cmd.snapshot.elements, cmd.index, cmd.id,
                         TrimSpace(cmd.label), TrimSpace(cmd.contains)).ok
IntentHit ==
  pickIntentFallbackElement(cmd.snapshot.elements, TrimSpace(cmd.label),
                            TrimSpace(cmd.contains)).ok
SystemHit ==
  pickSystemFallbackElement(cmd.snapshot.elements, TrimSpace(cmd.label),
                            TrimSpace(cmd.contains)).ok

AskedFallback(name) == \E i \in DOMAIN cmd.consulted : cmd.consulted[i] = name

\* C27: the fallbacks are asked only after the lookup on a snapshot taken
\* by this action has failed, the intent fallback first and the system
\* fallback only when the intent fallback found nothing; when the cached
\* lookup or the live lookup succeeds no fallback is asked, and when the
\* snapshot cannot be taken none is asked and the resolution fails.
C27_FallbacksAfterFailedLiveLookup ==
  /\ \E order \in {<<"cached", "live", "intent", "system">>,
                    <<"live", "intent", "system">>} :
       IsPrefix(cmd.consulted, order)
  /\ AskedFallback("intent") =>
       cmd.snapshot.ok /\ ~LiveHit /\ ~CachedHit /\ calls = <<DescribeCall>>
  /\ AskedFallback("system") => AskedFallback("intent") /\ ~IntentHit
  /\ (pc = "done" /\ result.ok) =>
       /\ result.details.by = "cached" => cmd.consulted = <<"cached">>
       /\ result.details.by = "live" =>
            ~AskedFallback("intent") /\ ~AskedFallback("system")
       /\ result.details.by = "intent" =>
            ~LiveHit /\ IntentHit /\ ~AskedFallback("system")
       /\ result.details.by = "system" => ~LiveHit /\ ~IntentHit /\ SystemHit
  /\ cmd.snapshotFailed =>
       /\ pc = "done" /\ ~result.ok /\ result.code = cmd.pickErr
       /\ ~AskedFallback("intent") /\ ~AskedFallback("system")

\* no button on screen: the intent fallback finds nothing and the system
\* fallback returns the navigation bar
C27_Witness ==
  /\ pc = "done" /\ result.ok /\ result.details.by = "system"
  /\ cmd.consulted = <<"cached", "live", "intent", "system">>
  /\ result.details.elem.Role = "NavigationBar"
  /\ cmd.label = <<"b", "a", "c", "k">>

\* the tokens the fallbacks are described to look for
StatedIntentTokens ==
  {<<"b", "a", "c", "k">>, <<"c", "l", "o", "s", "e">>,
   <<"d", "i", "s", "m", "i", "s", "s">>, <<"c", "h", "e", "c", "k">>,
   <<"c", "h", "e", "c", "k", "b", "o", "x">>}
StatedSystemTokens ==
  {<<"a", "d", "d">>, <<"d", "o", "n", "e">>, <<"o", "k">>,
   <<"a", "l", "l", "o", "w">>, <<"c", "h", "o", "o", "s", "e">>,
   <<"s", "e", "l", "e", "c", "t">>, <<"c", "a", "n", "c", "e", "l">>,
   <<"c", "l", "o", "s", "e">>, <<"b", "a", "c", "k">>,
   <<"d", "i", "s", "m", "i", "s", "s">>}

QueryWithoutToken ==
  /\ cmd.index < 0 /\ cmd.id = ""
  /\ FallbackQuery(cmd.label, cmd.contains) # <<>>
  /\ ~containsAnyToken(FallbackQuery(cmd.label, cmd.contains), StatedIntentTokens)
  /\ ~containsAnyToken(FallbackQuery(cmd.label, cmd.contains), StatedSystemTokens)

\* C28: for a label or contains query holding none of the tokens, neither
\* fallback returns an element from the snapshot, so the query, when no
\* element matches it, ends in ELEMENT_NOT_FOUND whatever is on screen.
C28_QueryWithoutTokenGetsNoFallback ==
  (pc = "done" /\ QueryWithoutToken /\ cmd.snapshot.ok) =>
    /\ ~IntentHit /\ ~SystemHit
    /\ ~LiveHit => (~result.ok /\ result.code = "ELEMENT_NOT_FOUND")

\* a flow type step naming more than one of index, id, label and contains
FlowTypeWithManySelectors ==
  /\ cmd.entry = "flow"
  /\ countElementSelectors(cmd.index, cmd.id, TrimSpace(cmd.label),
                           TrimSpace(cmd.contains)) > 1

\* C29: a flow type step with more than one selector sends nothing to the
\* injector and ends with USAGE, also when "into" is not written.
C29_FlowTypeManySelectorsIsUsage ==
  FlowTypeWithManySelectors =>
    /\ calls = <<>>
    /\ cmd.stage = "end" => (~result.ok /\ result.code = "USAGE")

\* C30: on every attempt that re-locates the target, the element found is
\* the best match for the element the controller was called with, and for
\* a target without ID a reported focus is trusted exactly when a focused
\* element lies within 24pt of the center that element had at the start.
C30_AnchoredToOriginalTarget ==
  \A i \in DOMAIN fc.attempts :
    LET a == fc.attempts[i]
    IN a.located =>
         /\ a.bestForOriginal
         /\ (BlankID[fc.elem.ID] /\ a.hasFocused) =>
              (a.trusted <=> a.focusedNearOriginal)

\* a snapshot call of the resolver or of submitTextInput has failed
ResolverSnapshotFailed == cmd.snapshotFailed
SubmitSnapshotFailed == ti # Idle /\ ti.snapshotFailed

\* C31: once a snapshot call fails during selector resolution or during
\* text submission/verification, the action ends without success and the
\* failure it returns is that snapshot error (IDB_UI_FAILED).
C31_SnapshotFailureIsReturned ==
  (ResolverSnapshotFailed \/ SubmitSnapshotFailed) =>
    /\ pc = "done"
    /\ ~result.ok
    /\ result.code = "IDB_UI_FAILED"

\* the two counts of a snapshot: the elements with an interactive role, and
\* those of them that are enabled and visible
RoleInteractive(elements) ==
  Cardinality({i \in DOMAIN elements : InteractiveRole[elements[i].Role]})
ShownInteractive(elements) ==
  Cardinality({i \in DOMAIN elements :
     /\ InteractiveRole[elements[i].Role]
     /\ elements[i].Enabled /\ elements[i].Visible})

\* C32 as stated: the count the waiter tests against interactiveMin and
\* reports is the number of elements of the polled snapshot with an
\* interactive role, visible or not.
C32_WaiterCountsInteractiveRoles ==
  wt.snapshot.ok =>
    /\ wt.lastInteractive = RoleInteractive(wt.snapshot.elements)
    /\ pc = "done" => result.details.interactive = RoleInteractive(wt.snapshot.elements)
    /\ (pc = "done" /\ wt.interactiveMin >= 0 /\ wt.hasText = <<>>) =>
         (result.ok <=> RoleInteractive(wt.snapshot.elements) >= wt.interactiveMin)

\* C32, amended: the count the waiter tests against interactiveMin and
\* reports is the number of elements of the polled snapshot that have an
\* interactive role and are enabled and visible.
C32_WaiterCountsShownInteractive ==
  wt.snapshot.ok =>
    /\ wt.lastInteractive = ShownInteractive(wt.snapshot.elements)
    /\ pc = "done" => result.details.interactive = ShownInteractive(wt.snapshot.elements)
    /\ (pc = "done" /\ wt.interactiveMin >= 0 /\ wt.hasText = <<>>) =>
         (result.ok <=> ShownInteractive(wt.snapshot.elements) >= wt.interactiveMin)

\* a wait for two interactive elements times out on a screen with two
\* buttons, one of them hidden
C32_Witness ==
  /\ pc = "done" /\ ~result.ok /\ wt.snapshot.ok
  /\ wt.interactiveMin = 2 /\ wt.hasText = <<>>
  /\ RoleInteractive(wt.snapshot.elements) = 2
  /\ result.details.interactive = 1

----------------------------------------------------------------------------
(* Properties of the type action's call order (SpecTypeCmd) *)

\* the position of the first and of the last call of an operation
FirstCall(ops) ==
  LET at == {i \in DOMAIN calls : calls[i].op \in ops}
  IN IF at = {} THEN Len(calls) + 1 ELSE SetMin(at)
LastCall(ops) ==
  LET at == {i \in DOMAIN calls : calls[i].op \in ops}
  IN IF at = {} THEN 0 ELSE CHOOSE i \in at : \A j \in at : j <= i

\* the type action goes into a field: --into, or a flow step that names one
TypesIntoField == cmd.stage # "args" /\ cmd.into

\* C33: for a type action with a selector the calls come in the order
\* resolution snapshot, focus attempts (tap, then snapshot), then with
\* replace only the clear tap and the backspaces, then text chunks and
\* verification snapshots; no text is sent when resolution, focus or
\* clearing failed.
C33_TypeIntoCallOrder ==
  LET text == FirstCall({"text"})
      clear == FirstCall({"key-sequence"})
      sent == text <= Len(calls)
      cleared == clear <= Len(calls)
  IN /\ LastCall({"tap", "key-sequence", "key"}) < text
     /\ \A i \in DOMAIN calls : i > text => calls[i].op \in {"text", "sleep", "describe-all"}
     /\ cleared =>
          /\ cmd.replace /\ TypesIntoField
          /\ clear > 1 /\ calls[clear - 1].op = "tap"
          /\ cmd.hasFocused => calls[clear - 1].arg = clearPointForElement(cmd.focused)
          /\ \A i \in DOMAIN calls : (clear < i /\ i < text) => calls[i] = KeyCall
     /\ (sent /\ TypesIntoField) =>
          /\ cmd.hasFocused
          /\ cmd.replace => cleared
          /\ \E i \in 1..(text - 3) :
               /\ calls[i].op = "tap"
               /\ calls[i + 1] = SleepCall(120)
               /\ calls[i + 2] = DescribeCall
               /\ \A j \in 1..(i - 1) : calls[j].op \in {"tap", "sleep", "describe-all"}
               /\ \A j \in (i + 3)..(text - 1) : calls[j].op \in {"tap", "key-sequence", "key"}
     /\ (TypesIntoField /\ cmd.stage = "end" /\ ~cmd.hasFocused) => ~sent
     /\ (cmd.stage = "end" /\ ~result.ok /\ ~sent) => LastCall({"text"}) = 0
     /\ (cmd.stage \in {"resolve", "focus"}) => ~sent
     /\ (TypesIntoField /\ cmd.stage = "focus") =>
          \A i \in DOMAIN calls : i > 1 => calls[i].op \in {"tap", "sleep", "describe-all"}
     /\ (TypesIntoField /\ calls # <<>> /\ calls[1] = DescribeCall) =>
          \A i \in DOMAIN calls : i > 1 /\ i < text /\ calls[i] = DescribeCall =>
            calls[i - 1] = SleepCall(120)

\* resolved on a fresh snapshot, focused, typed and verified
C33_Witness ==
  /\ cmd # Idle /\ cmd.stage = "end" /\ pc = "done" /\ result.ok
  /\ cmd.into /\ cmd.load = NoLastFrame
  /\ calls[1] = DescribeCall
  /\ calls[2].op = "tap"
  /\ FirstCall({"text"}) = 5
  /\ LastCall({"describe-all"}) > LastCall({"text"})

----------------------------------------------------------------------------
(* Properties of the Focus Controller's failed attempts (SpecFocus) *)

FailedAttempt(a) == ~a.tapOK \/ ~a.snapOK
UnverifiedAttempt(a) == a.snapOK /\ ~a.trusted

\* the last attempt of the kind, 0 when there is none
LastAttemptThat(kind) ==
  LET at == {i \in DOMAIN fc.attempts : kind[i]}
  IN IF at = {} THEN 0 ELSE CHOOSE i \in at : \A j \in at : j <= i
LastFailedAttempt ==
  LastAttemptThat([i \in DOMAIN fc.attempts |-> FailedAttempt(fc.attempts[i])])
LastUnverifiedAttempt ==
  LastAttemptThat([i \in DOMAIN fc.attempts |-> UnverifiedAttempt(fc.attempts[i])])
LastSnapshotAttempt ==
  LastAttemptThat([i \in DOMAIN fc.attempts |-> fc.attempts[i].snapOK])

\* C34: an attempt whose tap or snapshot fails counts against the bound
\* and does not end the loop; a failed tap is not followed by a snapshot
\* in its attempt; TYPE_FOCUS_FAILED carries the attempt count, the last
\* reason if any, the last transport error if any and the interactive
\* count of the last fetched snapshot if any.
C34_FailedAttemptsCountAndAreReported ==
  LET n == Len(fc.attempts)
  IN /\ n <= fc.retries
     /\ Len(CallsOf("tap")) = n + (IF pc = "focus_snap" THEN 1 ELSE 0)
     /\ Len(CallsOf("describe-all")) =
          Cardinality({i \in DOMAIN fc.attempts : fc.attempts[i].tapOK})
     /\ \A k \in DOMAIN calls : calls[k].op = "describe-all" =>
          k >= 3 /\ calls[k - 1] = SleepCall(120) /\ calls[k - 2].op = "tap"
     /\ \A i \in DOMAIN fc.attempts :
          /\ ~fc.attempts[i].tapOK => ~fc.attempts[i].snapOK
          /\ (FailedAttempt(fc.attempts[i]) /\ pc = "done") =>
               (n = fc.retries \/ result.ok)
     /\ (pc = "done" /\ result.ok) => fc.attempts[n].trusted
     /\ (pc = "done" /\ ~result.ok) =>
          /\ n = fc.retries
          /\ result.code = "TYPE_FOCUS_FAILED"
          /\ result.details.attempts = fc.retries
          /\ "attempts" \in result.details.keys
          /\ "reason" \in result.details.keys <=> LastUnverifiedAttempt > 0
          /\ LastUnverifiedAttempt > 0 =>
               result.details.reason =
                 IF fc.attempts[LastUnverifiedAttempt].located
                 THEN "focus moved to different element"
                 ELSE "target element not found after tap"
          /\ "lastError" \in result.details.keys <=> LastFailedAttempt > 0
          /\ LastFailedAttempt > 0 =>
               /\ result.details.lastError.code = "IDB_UI_FAILED"
               /\ result.details.lastError.message =
                    IF fc.attempts[LastFailedAttempt].tapOK
                    THEN "failed to capture ui tree" ELSE "focus tap failed"
          /\ "interactive" \in result.details.keys <=> LastSnapshotAttempt > 0
          /\ LastSnapshotAttempt > 0 =>
               result.details.interactive = fc.attempts[LastSnapshotAttempt].interactive

\* two attempts: a snapshot without the target, then a failed tap
C34_Witness ==
  /\ pc = "done" /\ ~result.ok /\ Len(fc.attempts) = 2
  /\ fc.attempts[1].snapOK /\ ~fc.attempts[1].located
  /\ ~fc.attempts[2].tapOK
  /\ Len(CallsOf("describe-all")) = 1
  /\ result.details.keys = {"selectorId", "attempts", "reason", "lastError", "interactive"}
  /\ result.details.lastError.message = "focus tap failed"
  /\ result.details.interactive = 1

----------------------------------------------------------------------------
(* Properties of the NearbyLabel inference (SpecNearby) *)

\* the elements that may lend their label to element i: other, visible,
\* labelled, with the center within 220pt
LabelDonors(elements, i) ==
  {j \in DOMAIN elements :
     /\ j # i
     /\ elements[j].Visible
     /\ TrimSpace(elements[j].Label) # <<>>
     /\ Dist2(elements[i].Center, elements[j].Center) <= 220 * 220}

\* C35: addNearbyLabels changes no field but NearbyLabel and keeps Index,
\* order and length; it sets NearbyLabel only on elements whose own label
\* is empty, to the label of the nearest other visible labelled element
\* within 220pt.
C35_NearbyLabelIsPureAnnotation ==
  pc = "done" =>
    /\ Len(pf.out) = Len(pf.elements)
    /\ \A i \in DOMAIN pf.out :
         LET before == pf.elements[i]
             after == pf.out[i]
             donors == LabelDonors(pf.elements, i)
         IN /\ after = [before EXCEPT !.NearbyLabel = after.NearbyLabel]
            /\ after.Index = i
            /\ after.NearbyLabel # before.NearbyLabel =>
                 /\ TrimSpace(before.Label) = <<>>
                 /\ \E j \in donors :
                      /\ after.NearbyLabel = pf.elements[j].Label
                      /\ \A k \in donors :
                           Dist2(before.Center, pf.elements[j].Center)
                             <= Dist2(before.Center, pf.elements[k].Center)
            /\ (TrimSpace(before.Label) = <<>> /\ donors # {}) =>
                 after.NearbyLabel # <<>>
            /\ TrimSpace(before.Label) # <<>> => after.NearbyLabel = <<>>

\* a field with a blank label, a hidden text at its place, a text 222pt
\* away and one 220pt away: the last one lends its label
C35_Witness ==
  /\ pc = "done" /\ Len(pf.out) = 3
  /\ pf.elements[1].Label = <<" ">>
  /\ pf.out[1].NearbyLabel = <<"b", " ">>
  /\ \E j, k \in 2..3 : pf.elements[j].ID = "f" /\ pf.elements[k].ID = "e"

----------------------------------------------------------------------------
(* Properties of the Normalizer's counts (SpecNormalize) *)

\* the node is a candidate (it has a rect of positive width and height)
\* and passes the min-area, include/exclude-role and enabled filters
PassesFilters(node, opts) ==
  /\ node.HasRect /\ node.Frame.W > 0 /\ node.Frame.H > 0
  /\ node.Frame.W * node.Frame.H >= opts.MinArea
  /\ opts.IncludeRoles = {} \/ ToLower(TrimSpace(Runes[node.Role])) \in opts.IncludeRoles
  /\ ToLower(TrimSpace(Runes[node.Role])) \notin opts.ExcludeRoles
  /\ node.Enabled

\* C36: allCount is the number of candidates that pass the filters,
\* interactiveCount the number of those with an interactive role; the
\* element set returned has interactiveCount elements, all interactive,
\* with interactive-only and allCount elements without; every element
\* returned is enabled and has positive width and height.
C36_NormalizerCounts ==
  pc = "done" =>
    LET passed == {k \in DOMAIN pf.nodes : PassesFilters(pf.nodes[k], pf.opts)}
        interactive == {k \in passed : InteractiveRole[pf.nodes[k].Role]}
        elements == pf.out.elements
    IN /\ pf.out.allCount = Cardinality(passed)
       /\ pf.out.interactiveCount = Cardinality(interactive)
       /\ pf.out.interactiveCount <= pf.out.allCount
       /\ Len(elements) = IF pf.opts.InteractiveOnly THEN pf.out.interactiveCount
                          ELSE pf.out.allCount
       /\ pf.opts.InteractiveOnly =>
            \A i \in DOMAIN elements : InteractiveRole[elements[i].Role]
       /\ \A i \in DOMAIN elements :
            elements[i].Enabled /\ elements[i].Frame.W > 0 /\ elements[i].Frame.H > 0

\* three nodes: a disabled button, a text and a button; interactive-only
\* returns the button and counts two
C36_Witness ==
  /\ pc = "done" /\ Len(pf.nodes) = 3 /\ pf.opts.InteractiveOnly
  /\ \E k \in DOMAIN pf.nodes : ~pf.nodes[k].Enabled
  /\ pf.out.allCount = 2 /\ pf.out.interactiveCount = 1
  /\ Len(pf.out.elements) = 1

----------------------------------------------------------------------------
(* Properties of the chunked submission (SpecType) *)

\* the text handed to the j-th typeTextInChunks call of submitTextInput:
\* the intended text, then the missing suffix of each round
SubmissionText(j) == IF j = 1 THEN ti.text ELSE ti.rounds[j - 1].missing

\* the j-th typeTextInChunks call has returned without error
SubmissionComplete(j) ==
  j < Len(ti.submitted) \/ (pc # "type_chunks" /\ ~ti.injectorFailed)

\* C37: typeTextInChunks sends the chunks of its text in their order, one
\* injector call each, so that the strings sent make up the text; at the
\* first failing call it stops, sends no further chunk and returns
\* IDB_UI_FAILED.
C37_ChunksSentInOrderUntilFailure ==
  /\ [j \in 1..Len(CallsOf("text")) |-> CallsOf("text")[j].arg] = Flatten(ti.submitted)
  /\ \A j \in DOMAIN ti.submitted :
       LET chunks == splitIntoInputChunks(SubmissionText(j), 4)
           sent == ti.submitted[j]
       IN /\ Len(sent) <= Len(chunks)
          /\ \A k \in DOMAIN sent :
               /\ sent[k] = chunks[k]
               /\ sent[k] = SubSeq(SubmissionText(j), 4 * (k - 1) + 1,
                                   Min2(4 * k, Len(SubmissionText(j))))
          /\ SubmissionComplete(j) => Flatten(sent) = SubmissionText(j)
  /\ ti.injectorFailed =>
       /\ pc = "done" /\ ~result.ok /\ result.code = "IDB_UI_FAILED"
       /\ calls[Len(calls)] = TextCall(ti.submitted[Len(ti.submitted)][Len(ti.submitted[Len(ti.submitted)])])

\* the third of five chunks fails: two chunks and the failing one were sent
C37_Witness ==
  /\ pc = "done" /\ ti.injectorFailed /\ ti.text = TextHello
  /\ Len(ti.submitted) = 1 /\ Len(ti.submitted[1]) = 3
  /\ Len(CallsOf("text")) = 3
  /\ Len(splitIntoInputChunks(ti.text, 4)) = 5
  /\ result.code = "IDB_UI_FAILED"

----------------------------------------------------------------------------
(* Properties of the resubmissions (SpecType) *)

\* submitTextInput has returned after resubmitting a missing suffix at
\* least once, every injector call and every snapshot having succeeded
ReturnedAfterResubmission ==
  pc = "done" /\ Len(ti.submitted) > 1 /\ ~ti.injectorFailed /\ ~ti.snapshotFailed

\* C38: every resubmission of a missing suffix is followed by another
\* verification round, a snapshot and a comparison, before the outcome is
\* decided.
C38_ResubmissionIsVerified ==
  ReturnedAfterResubmission =>
    LastCall({"describe-all"}) > LastCall({"text"})

----------------------------------------------------------------------------
(* Properties of the outcome of submitTextInput (SpecType) *)

\* submitTextInput has returned success for a text that is not blank (the
\* callers pass the trimmed text and reject an empty one)
SubmitSucceeded == pc = "done" /\ result.ok /\ TrimSpace(ti.text) # <<>>

\* C39: a success of submitTextInput after a verification round on a
\* non-secure target means that the value observed in the last round is
\* the intended text up to white space; the other successes are those
\* without verification: the target is secure, or no focus target was
\* given and none was found focused.
C39_SuccessIsCompleteOrUnverified ==
  SubmitSucceeded =>
    \/ /\ ti.hasTarget /\ ~SecureTextInputRole[ti.target.Role]
       /\ ti.rounds # <<>>
       /\ Strip(ti.rounds[Len(ti.rounds)].observed) = Strip(ti.text)
       /\ ti.lastObserved = ti.rounds[Len(ti.rounds)].observed
    \/ ti.hasTarget /\ SecureTextInputRole[ti.target.Role]
    \/ ~ti.hasFocused /\ ~ti.hasTarget /\ ti.rounds = <<>>

\* the text "a bc" is read back as "abc" in the second round
C39_Witness ==
  /\ SubmitSucceeded /\ ti.text = TextSpaced
  /\ Len(ti.rounds) = 2
  /\ ti.rounds[1].missing # <<>>
  /\ ti.rounds[2].observed # ti.text
  /\ Strip(ti.rounds[2].observed) = Strip(ti.text)
  /\ ~SecureTextInputRole[ti.target.Role]

----------------------------------------------------------------------------
(* Properties of lazy step validation (SpecFlow)                           *)

\* a step executeFlowStep has no case for, or a swipe or wait whose
\* arguments do not parse
UnsupportedStep(step) ==
  NormalizedAction[step.Action] \notin {"tap", "type", "clear", "swipe", "wait"}

InvalidArgsStep(step) ==
  /\ NormalizedAction[step.Action] \in {"swipe", "wait"}
  /\ ~step.ArgsOK

\* the step the loop handed to executeFlowStep last came back with USAGE
StepRejected ==
  /\ fl # Idle
  /\ fl.outcomes # <<>>
  /\ fl.outcomes[Len(fl.outcomes)] = "USAGE"

\* the arguments of the command line and the file were the ones at fault
FlowArgsRejected ==
  \/ fl.resumeFrom <= 0
  \/ Len(fl.steps) = 0
  \/ fl.resumeFrom > Len(fl.steps)

\* C40: flow steps are validated lazily.  A step at position k that
\* executeFlowStep rejects with USAGE is rejected only when the loop reaches
\* it: the steps from the resume index up to k-1 were executed before it, in
\* order and with success, and the failure is FLOW_STEP_FAILED wrapping the
\* USAGE error with resumeFrom = k.  A top-level USAGE error comes only from
\* the command line and the step count, with no step executed, so a bad step
\* further down the file never stops the steps before it.
C40_StepsValidatedLazily ==
  /\ StepRejected =>
       LET n == Len(fl.executed)
           k == fl.executed[n]
       IN /\ pc = "done"
          /\ result.code = "FLOW_STEP_FAILED"
          /\ result.details.error = "USAGE"
          /\ result.details.step = k
          /\ result.details.resumeFrom = k
          /\ \A j \in 1..n : fl.executed[j] = fl.resumeFrom + j - 1
          /\ \A j \in 1..(n - 1) : fl.outcomes[j] = "ok"
  /\ (fl # Idle /\ pc = "done" /\ result.code = "USAGE") =>
       /\ FlowArgsRejected
       /\ fl.executed = <<>>

\* a flow whose third step is unsupported, run from the start: steps 1 and 2
\* ran, then step 3 was rejected
C40_Witness ==
  /\ StepRejected
  /\ pc = "done"
  /\ fl.resumeFrom = 1
  /\ fl.executed = <<1, 2, 3>>
  /\ UnsupportedStep(fl.steps[3])
  /\ result.code = "FLOW_STEP_FAILED"
  /\ result.details.resumeFrom = 3

====
